---- MODULE Spec2Model ----
(***************************************************************************)
(* Model of ufss/vibronic_eigenstates/Lindblad_eigenstates.py: the         *)
(* OpenPolymer / OpenPolymerVibrations operator algebra, the Lindblad      *)
(* instruction builders and the Liouvillian assembler.                     *)
(*                                                                         *)
(* Numbers are exact complex rationals <<re, im, den>> (den > 0, lowest    *)
(* terms); they stand for the floating point values numpy computes on the  *)
(* small inputs enumerated here.  Matrices are sequences of rows, indexed  *)
(* from 1; python positions and basis indices are 0-based and are kept     *)
(* 0-based wherever the source names them.                                 *)
(***************************************************************************)
EXTENDS Integers, Sequences, FiniteSets, TLC

\* ------------------------------------------------------------------------
\* Bounds of the model
\* ------------------------------------------------------------------------
MaxSites == 3
MaxEnergy == 2
MaxCoupling == 2

\* ------------------------------------------------------------------------
\* Exact complex rational arithmetic
\* ------------------------------------------------------------------------
Abs(x) == IF x < 0 THEN -x ELSE x

RECURSIVE GCD(_, _)
GCD(a, b) == IF b = 0 THEN a ELSE GCD(b, a % b)

Norm(re, im, den) ==
  IF den = 1 THEN <<re, im, 1>>
  ELSE LET g == GCD(GCD(Abs(re), Abs(im)), den)
       IN  <<re \div g, im \div g, den \div g>>

Zero == <<0, 0, 1>>
One == <<1, 0, 1>>
Real(k) == <<k, 0, 1>>
Frac(p, q) == Norm(p, 0, q)

CAdd(a, b) ==
  IF a[3] = b[3] THEN Norm(a[1] + b[1], a[2] + b[2], a[3])
  ELSE LET g == GCD(a[3], b[3])
           fa == b[3] \div g
           fb == a[3] \div g
       IN  Norm(a[1] * fa + b[1] * fb, a[2] * fa + b[2] * fb, a[3] * fa)

CNeg(a) == <<-a[1], -a[2], a[3]>>
CSub(a, b) == CAdd(a, CNeg(b))
CConj(a) == <<a[1], -a[2], a[3]>>

CMul(a, b) ==
  Norm(a[1] * b[1] - a[2] * b[2], a[1] * b[2] + a[2] * b[1], a[3] * b[3])

\* a / b for a real, nonzero divisor b
CDivReal(a, b) ==
  LET g  == GCD(a[3], b[3])
      bn == b[3] \div g
      an == a[3] \div g
      s  == IF b[1] < 0 THEN -1 ELSE 1
  IN  Norm(s * a[1] * bn, s * a[2] * bn, an * Abs(b[1]))

CHalf(a) == Norm(a[1], a[2], 2 * a[3])

\* order of two real values
RLess(a, b) == a[1] * b[3] < b[1] * a[3]

RECURSIVE SumUpTo(_, _)
SumUpTo(s, k) == IF k = 0 THEN Zero ELSE CAdd(SumUpTo(s, k - 1), s[k])

\* ------------------------------------------------------------------------
\* Dense matrices (numpy arrays of rank 2) and the numpy calls used
\* ------------------------------------------------------------------------
Rows(M) == Len(M)
Cols(M) == Len(M[1])

\* a sequence, or a matrix, with every element computed (np.array)
np_array1(v) == SubSeq(v, 1, Len(v))
np_array2(M) == np_array1([r \in 1..Len(M) |-> np_array1(M[r])])

np_zeros(r, c) == [i \in 1..r |-> [j \in 1..c |-> Zero]]
np_eye(d) == [i \in 1..d |-> [j \in 1..d |-> IF i = j THEN One ELSE Zero]]
Transpose(M) == [j \in 1..Cols(M) |-> [i \in 1..Rows(M) |-> M[i][j]]]
np_conjugate(M) == [i \in 1..Rows(M) |-> [j \in 1..Cols(M) |-> CConj(M[i][j])]]
MatAdd(A, B) == [i \in 1..Rows(A) |-> [j \in 1..Cols(A) |-> CAdd(A[i][j], B[i][j])]]
MatSub(A, B) == [i \in 1..Rows(A) |-> [j \in 1..Cols(A) |-> CSub(A[i][j], B[i][j])]]
MatNeg(A) == [i \in 1..Rows(A) |-> [j \in 1..Cols(A) |-> CNeg(A[i][j])]]
MatScale(s, A) == [i \in 1..Rows(A) |-> [j \in 1..Cols(A) |-> CMul(s, A[i][j])]]
MatHalf(A) == [i \in 1..Rows(A) |-> [j \in 1..Cols(A) |-> CHalf(A[i][j])]]

np_dot(A, B) ==
  [i \in 1..Rows(A) |-> [j \in 1..Cols(B) |->
      SumUpTo([k \in 1..Cols(A) |-> CMul(A[i][k], B[k][j])], Cols(A))]]

np_kron(A, B) ==
  LET rb == Rows(B)
      cb == Cols(B)
  IN  [i \in 1..(Rows(A) * rb) |-> [j \in 1..(Cols(A) * cb) |->
         CMul(A[((i - 1) \div rb) + 1][((j - 1) \div cb) + 1],
              B[((i - 1) % rb) + 1][((j - 1) % cb) + 1])]]

\* L.dot(v) for a vector v
MatVec(M, v) ==
  [i \in 1..Rows(M) |-> SumUpTo([k \in 1..Cols(M) |-> CMul(M[i][k], v[k])], Cols(M))]

\* row-major vectorization (numpy ravel) and its inverse (reshape)
Ravel(M) ==
  [k \in 1..(Rows(M) * Cols(M)) |-> M[((k - 1) \div Cols(M)) + 1][((k - 1) % Cols(M)) + 1]]
Reshape(v, r, c) == [i \in 1..r |-> [j \in 1..c |-> v[(i - 1) * c + j]]]
Trace(M) == SumUpTo([k \in 1..Rows(M) |-> M[k][k]], Rows(M))

\* kron of two integer vectors (rank 1 arrays)
VecKron(a, b) ==
  [k \in 1..(Len(a) * Len(b)) |-> a[((k - 1) \div Len(b)) + 1] * b[((k - 1) % Len(b)) + 1]]

\* python list.insert(position, item) with a 0-based position
ListInsert(list, position, item) ==
  [k \in 1..(Len(list) + 1) |->
     IF k < position + 1 THEN list[k]
     ELSE IF k = position + 1 THEN item ELSE list[k - 1]]

\* ------------------------------------------------------------------------
\* OpenPolymer: the local 2x2 operators set in __init__
\* ------------------------------------------------------------------------
up == << <<Zero, Zero>>, <<One, Zero>> >>
down == << <<Zero, One>>, <<Zero, Zero>> >>
ii == np_eye(2)
sz == << <<Zero, Zero>>, <<Zero, One>> >>
occupied == << <<Zero, Zero>>, <<Zero, One>> >>
empty == << <<One, Zero>>, <<Zero, Zero>> >>

\* ------------------------------------------------------------------------
\* Tensor factor builder
\* ------------------------------------------------------------------------
RECURSIVE KronUpTo(_, _)
KronUpTo(list, k) ==
  IF k = 1 THEN list[1] ELSE np_kron(KronUpTo(list, k - 1), list[k])

recursive_kron(list_of_matrices) == KronUpTo(list_of_matrices, Len(list_of_matrices))

\* matrix_list[pos] = el for every (el, pos) of element_list, in order
RECURSIVE PlaceElements(_, _, _)
PlaceElements(matrix_list, element_list, k) ==
  IF k = 0 THEN matrix_list
  ELSE [PlaceElements(matrix_list, element_list, k - 1)
          EXCEPT ![element_list[k][2] + 1] = element_list[k][1]]

NoError == "none"
Returned(v) == [error |-> NoError, value |-> v]
Raised(e) == [error |-> e, value |-> <<>>]

\* the count of identities never tested
electronic_identity_kron_unchecked(n, element_list) ==
  Returned(recursive_kron(
    PlaceElements([j \in 1..n |-> ii], element_list, Len(element_list))))

electronic_identity_kron(n, element_list) ==
  IF n - Len(element_list) < 0
  THEN Raised("ValueError: Too many elements for Hilbert space")
  ELSE Returned(recursive_kron(
         PlaceElements([j \in 1..n |-> ii], element_list, Len(element_list))))

\* itertools.combinations(range(n), r): the r-tuples of 0..n-1 in
\* lexicographic order
RECURSIVE CombinationsFrom(_, _, _)
CombinationsFrom(lo, n, r) ==
  IF r = 0 THEN << <<>> >>
  ELSE IF n - lo < r THEN <<>>
  ELSE LET rest == CombinationsFrom(lo + 1, n, r - 1)
       IN  [k \in 1..Len(rest) |-> <<lo>> \o rest[k]]
           \o CombinationsFrom(lo + 1, n, r)

\* the same tuples, last one first
combinations_reversed(n, r) ==
  LET lex == CombinationsFrom(0, n, r)
  IN  [k \in 1..Len(lex) |-> lex[Len(lex) + 1 - k]]

combinations(n, r) == CombinationsFrom(0, n, r)

\* the operators paired with the positions taken from the last one back
Zip_reversed(o_list, pos_tuple) ==
  [k \in 1..Len(o_list) |-> <<o_list[k], pos_tuple[Len(pos_tuple) + 1 - k]>>]

\* zip(o_list, pos_tuple)
Zip(o_list, pos_tuple) == [k \in 1..Len(o_list) |-> <<o_list[k], pos_tuple[k]>>]

\* first error raised while a list is built element by element, if any
FirstError(results) ==
  IF \E k \in 1..Len(results) : results[k].error # NoError
  THEN LET k == CHOOSE k \in 1..Len(results) :
                  /\ results[k].error # NoError
                  /\ \A m \in 1..(k - 1) : results[m].error = NoError
       IN  Raised(results[k].error)
  ELSE Returned([k \in 1..Len(results) |-> results[k].value])

\* every operator placed on the first site
make_single_operator_list_first_site(n, O) ==
  FirstError([i \in 1..n |-> electronic_identity_kron(n, << <<O, 0>> >>)])

make_single_operator_list(n, O) ==
  FirstError([i \in 1..n |-> electronic_identity_kron(n, << <<O, i - 1>> >>)])

make_multi_operator_list(n, o_list) ==
  LET positions == combinations(n, Len(o_list))
  IN  FirstError([k \in 1..Len(positions) |->
                    electronic_identity_kron(n, Zip(o_list, positions[k]))])

\* ------------------------------------------------------------------------
\* Electronic subsystem
\* ------------------------------------------------------------------------
\* the item always inserted at position 0
electronic_vector_of_ones_kron_first(n, position, item) ==
  LET ones_list == ListInsert([i \in 1..(n - 1) |-> <<1, 1>>], 0, item)
      RECURSIVE VecKronUpTo(_)
      VecKronUpTo(k) == IF k = 1 THEN ones_list[1]
                        ELSE VecKron(VecKronUpTo(k - 1), ones_list[k])
  IN  VecKronUpTo(Len(ones_list))

electronic_vector_of_ones_kron(n, position, item) ==
  LET ones_list == ListInsert([i \in 1..(n - 1) |-> <<1, 1>>], position, item)
      RECURSIVE VecKronUpTo(_)
      VecKronUpTo(k) == IF k = 1 THEN ones_list[1]
                        ELSE VecKron(VecKronUpTo(k - 1), ones_list[k])
  IN  VecKronUpTo(Len(ones_list))

\* np.arange(N) started at 1 instead of 0
single_mode_occ_from_one == <<1, 2>>

single_mode_occ == <<0, 1>>

RECURSIVE OccNumUpTo(_, _)
OccNumUpTo(n, i) ==
  LET term == electronic_vector_of_ones_kron(n, i, single_mode_occ)
  IN  IF i = 0 THEN term
      ELSE LET acc == OccNumUpTo(n, i - 1)
           IN  [k \in 1..Len(acc) |-> acc[k] + term[k]]

make_electronic_total_occupation_number(n) == OccNumUpTo(n, n - 1)

\* np.where(occ == manifold_num)[0]: ascending 0-based basis indices
RECURSIVE WhereUpTo(_, _, _)
WhereUpTo(vec, val, k) ==
  IF k = 0 THEN <<>>
  ELSE IF vec[k] = val THEN Append(WhereUpTo(vec, val, k - 1), k - 1)
       ELSE WhereUpTo(vec, val, k - 1)

mask_of(occ_num, manifold_num) == WhereUpTo(occ_num, manifold_num, Len(occ_num))

RECURSIVE HamSites(_, _, _)
HamSites(en, occ_list, i) ==
  IF i = 1 THEN MatScale(en[1], occ_list[1])
  ELSE MatAdd(HamSites(en, occ_list, i - 1), MatScale(en[i], occ_list[i]))

RECURSIVE HamCouplings(_, _, _, _)
HamCouplings(ham, J, exch_list, i) ==
  IF i = 0 THEN ham
  ELSE MatAdd(MatAdd(HamCouplings(ham, J, exch_list, i - 1),
                     MatScale(J[i], exch_list[i])),
              MatScale(CConj(J[i]), Transpose(exch_list[i])))

make_electronic_hamiltonian(en, J, occ_list, exch_list) ==
  HamCouplings(HamSites(en, occ_list, Len(en)), J, exch_list, Len(exch_list))

\* ------------------------------------------------------------------------
\* Detailed balance weights
\* ------------------------------------------------------------------------
\* np.exp on the arguments -E/kT that the enumerated energies and
\* temperatures produce, to three significant digits; exp(-20) is about
\* 2e-9 and exp(-750), exp(-1500), exp(-3000) underflow to exactly 0.0
np_exp(x) ==
  CASE x = Zero -> One
    [] x = Frac(-1, 2) -> Frac(607, 1000)
    [] x = Real(-1) -> Frac(368, 1000)
    [] x = Frac(-3, 2) -> Frac(223, 1000)
    [] x = Real(-2) -> Frac(135, 1000)
    [] x = Real(-3) -> Frac(50, 1000)
    [] x = Real(-4) -> Frac(18, 1000)
    [] x = Real(-10) -> Frac(45, 1000000)
    [] x = Real(-20) -> Frac(2, 1000000000)
    [] x = Real(-750) -> Zero
    [] x = Real(-1500) -> Zero
    [] x = Real(-3000) -> Zero

\* default absolute tolerance of np.isclose is 1e-8
AtolInverse == 100000000

\* np.isclose(a, 0) for a real a: |a - 0| <= atol + rtol * |0|
np_isclose_zero(a) == Abs(a[1]) <= a[3] \div AtolInverse

Half == Frac(1, 2)

\* Z = np.exp(-E1/self.kT) + np.exp(-E2/self.kT), for kT != 0
partition_function(kT_, E1, E2) ==
  CAdd(np_exp(CDivReal(CNeg(E1), kT_)), np_exp(CDivReal(CNeg(E2), kT_)))

\* the guard on Z returning the upward limit (0, 1)
boltzmann_factors_ordered_inputs_upward(kT_, E1, E2) ==
  IF kT_ = Zero
  THEN [value |-> <<One, Zero>>, divisions |-> {}]
  ELSE LET w1 == np_exp(CDivReal(CNeg(E1), kT_))
           w2 == np_exp(CDivReal(CNeg(E2), kT_))
           Z  == partition_function(kT_, E1, E2)
       IN  IF np_isclose_zero(Z)
           THEN [value |-> <<Zero, One>>, divisions |-> {"kT"}]
           ELSE [value |-> <<CDivReal(w1, Z), CDivReal(w2, Z)>>,
                 divisions |-> {"kT", "Z"}]

\* the returned pair, and which of the divisions (by kT, by Z) were executed
boltzmann_factors_ordered_inputs(kT_, E1, E2) ==
  IF kT_ = Zero
  THEN [value |-> <<One, Zero>>, divisions |-> {}]
  ELSE LET w1 == np_exp(CDivReal(CNeg(E1), kT_))
           w2 == np_exp(CDivReal(CNeg(E2), kT_))
           Z  == partition_function(kT_, E1, E2)
       IN  IF np_isclose_zero(Z)
           THEN [value |-> <<One, Zero>>, divisions |-> {"kT"}]
           ELSE [value |-> <<CDivReal(w1, Z), CDivReal(w2, Z)>>,
                 divisions |-> {"kT", "Z"}]

\* the result for E1 > E2 returned in the order of the ordered call
boltzmann_factors_unswapped(kT_, E1, E2) ==
  IF E1 = E2
  THEN [value |-> <<Half, Half>>, divisions |-> {}]
  ELSE IF RLess(E1, E2)
       THEN boltzmann_factors_ordered_inputs(kT_, E1, E2)
       ELSE boltzmann_factors_ordered_inputs(kT_, E2, E1)

boltzmann_factors(kT_, E1, E2) ==
  IF E1 = E2
  THEN [value |-> <<Half, Half>>, divisions |-> {}]
  ELSE IF RLess(E1, E2)
       THEN boltzmann_factors_ordered_inputs(kT_, E1, E2)
       ELSE LET r == boltzmann_factors_ordered_inputs(kT_, E2, E1)
            IN  [value |-> <<r.value[2], r.value[1]>>, divisions |-> r.divisions]

\* ------------------------------------------------------------------------
\* Dissipator library on matrices, and the Liouvillian assembler
\* ------------------------------------------------------------------------
\* the anticommutator part without its factor 1/2
make_Lindblad_instructions_unhalved(gamma, O) ==
  LET II == np_eye(Rows(O))
      Od == np_conjugate(Transpose(O))
      leftright == MatScale(gamma, MatNeg(np_dot(Od, O)))
  IN  << <<MatScale(gamma, O), Od>>, <<leftright, II>>, <<II, leftright>> >>

make_Lindblad_instructions(gamma, O) ==
  LET II == np_eye(Rows(O))
      Od == np_conjugate(Transpose(O))
      leftright == MatScale(gamma, MatHalf(MatNeg(np_dot(Od, O))))
  IN  << <<MatScale(gamma, O), Od>>, <<leftright, II>>, <<II, leftright>> >>

make_commutator_instructions(O) ==
  LET II == np_eye(Rows(O))
  IN  << <<O, II>>, <<II, MatNeg(O)>> >>

make_commutator_instructions2(Oket, Obra) ==
  LET IIket == np_eye(Rows(Oket))
      IIbra == np_eye(Rows(Obra))
  IN  << <<Oket, IIbra>>, <<IIket, MatNeg(Obra)>> >>

RECURSIVE LiouvillianUpTo(_, _)
LiouvillianUpTo(instruction_list, k) ==
  LET term == np_kron(instruction_list[k][1], Transpose(instruction_list[k][2]))
  IN  IF k = 1 THEN term
      ELSE MatAdd(LiouvillianUpTo(instruction_list, k - 1), term)

\* np.kron(left, right) in place of np.kron(left, right.T)
make_Liouvillian_untransposed(instruction_list) ==
  LET RECURSIVE UpTo(_)
      UpTo(k) ==
        LET term == np_kron(instruction_list[k][1], instruction_list[k][2])
        IN  IF k = 1 THEN term ELSE MatAdd(UpTo(k - 1), term)
  IN  UpTo(Len(instruction_list))

make_Liouvillian(instruction_list) ==
  LiouvillianUpTo(instruction_list, Len(instruction_list))

\* ------------------------------------------------------------------------
\* The Liouvillian of the electronic system alone
\* ------------------------------------------------------------------------
MinusI == <<0, -1, 1>>

RECURSIVE MatSumUpTo(_, _)
MatSumUpTo(list, k) ==
  IF k = 1 THEN list[1] ELSE MatAdd(MatSumUpTo(list, k - 1), list[k])

\* total_deph = sz_list[0] + sz_list[1] + ...
optical_dephasing_operator(sz_list_) == MatSumUpTo(sz_list_, Len(sz_list_))

optical_dephasing_Liouvillian(sz_list_, gamma) ==
  make_Liouvillian(make_Lindblad_instructions(gamma, optical_dephasing_operator(sz_list_)))

\* make_manifold_hamiltonian_instructions('all', 'all')
make_manifold_hamiltonian_instructions_all(H) ==
  make_commutator_instructions2(MatScale(MinusI, H), MatScale(MinusI, H))

\* the Hamiltonian commutator alone
make_total_Liouvillian_without_dephasing(H, sz_list_, gamma) ==
  make_Liouvillian(make_manifold_hamiltonian_instructions_all(H))

\* make_total_Liouvillian for num_sites = 1, where the exciton terms are
\* not added
make_total_Liouvillian(H, sz_list_, gamma) ==
  MatAdd(make_Liouvillian(make_manifold_hamiltonian_instructions_all(H)),
         optical_dephasing_Liouvillian(sz_list_, gamma))

\* ------------------------------------------------------------------------
\* eigfun: eigendecomposition of a Liouvillian block
\* ------------------------------------------------------------------------
\* a / b for a nonzero complex divisor b
CDiv(a, b) ==
  Norm((a[1] * b[1] + a[2] * b[2]) * b[3],
       (a[2] * b[1] - a[1] * b[2]) * b[3],
       a[3] * (b[1] * b[1] + b[2] * b[2]))

\* what numpy returns for a division by 0: nan or inf components, and
\* everything computed from them
NonFinite == <<0, 0, 0>>

np_divide(a, b) == IF b = Zero \/ a = NonFinite THEN NonFinite ELSE CDiv(a, b)

IsFinite(v) == \A k \in 1..Len(v) : v[k] # NonFinite

\* |a| < |b|
AbsLess(a, b) ==
  (a[1] * a[1] + a[2] * a[2]) * b[3] * b[3] < (b[1] * b[1] + b[2] * b[2]) * a[3] * a[3]

\* np.argmax(np.abs(v)): the first position of largest magnitude (1-based)
argmax_abs(v) ==
  CHOOSE k \in 1..Len(v) :
    /\ \A j \in 1..Len(v) : ~AbsLess(v[k], v[j])
    /\ \A j \in 1..(k - 1) : AbsLess(v[j], v[k])

\* int(np.sqrt(n))
int_sqrt(n) == CHOOSE r \in 0..n : r * r <= n /\ (r + 1) * (r + 1) > n

\* complex numbers sort by real part, then by imaginary part
CLexLess(a, b) ==
  \/ a[1] * b[3] < b[1] * a[3]
  \/ a[1] * b[3] = b[1] * a[3] /\ a[2] * b[3] < b[2] * a[3]

\* eigvals.argsort(): k-th entry is the position of the k-th smallest value;
\* equal values keep their order (arrays this short are insertion sorted)
argsort(eigvals) ==
  LET n == Len(eigvals)
      rank(i) == Cardinality({j \in 1..n : \/ CLexLess(eigvals[j], eigvals[i])
                                           \/ eigvals[j] = eigvals[i] /\ j < i}) + 1
  IN  np_array1([k \in 1..n |-> CHOOSE i \in 1..n : rank(i) = k])

Column(M, c) == np_array1([r \in 1..Rows(M) |-> M[r][c]])

RemoveAt(seq, k) == [j \in 1..(Len(seq) - 1) |-> IF j < k THEN seq[j] ELSE seq[j + 1]]

\* determinant, expanded along the first row
RECURSIVE Det(_)
Det(M) ==
  IF Rows(M) = 1 THEN M[1][1]
  ELSE SumUpTo([c \in 1..Rows(M) |->
                  IF M[1][c] = Zero THEN Zero
                  ELSE CMul(IF c % 2 = 1 THEN M[1][c] ELSE CNeg(M[1][c]),
                            Det([r \in 1..(Rows(M) - 1) |-> RemoveAt(M[r + 1], c)]))],
               Rows(M))

\* np.linalg.pinv(M), kept as the expression: no step of the program that
\* is modelled looks inside the left eigenvectors
np_linalg_pinv(M) == [pinv |-> M]

\* unit vectors with rational components: plus or minus a basis vector,
\* for length 2 also (3, 4)/5 and (4, -3)/5, for length 3 also (2, -1, -2)/3
UnitVectors(n) ==
  LET basis == {[k \in 1..n |-> IF k = p THEN One ELSE Zero] : p \in 1..n}
      mixed == IF n = 2
               THEN {<<Frac(3, 5), Frac(4, 5)>>, <<Frac(4, 5), Frac(-3, 5)>>}
               ELSE {}
      three == IF n = 3 THEN {<<Frac(2, 3), Frac(-1, 3), Frac(-2, 3)>>} ELSE {}
      all == basis \cup mixed \cup three
  IN  all \cup {[k \in 1..n |-> CNeg(v[k])] : v \in all}

\* one vector of vectors[k] for every k, no two of them parallel
RECURSIVE EigenvectorColumns(_, _)
EigenvectorColumns(vectors, k) ==
  IF k = 0 THEN {<<>>}
  ELSE UNION {{Append(cols, v) :
                 v \in {u \in vectors[k] :
                          \A j \in 1..(k - 1) :
                            u # cols[j] /\ u # [i \in 1..Len(u) |-> CNeg(cols[j][i])]}} :
              cols \in EigenvectorColumns(vectors, k - 1)}

IsBasisVector(v) == Cardinality({k \in 1..Len(v) : v[k] # Zero}) = 1

\* np.linalg.eig of a triangular block: the eigenvalues are the diagonal,
\* in order; each eigenvector has unit length, and its sign and, in a
\* degenerate eigenspace, its direction are LAPACK's choice: the k-th is
\* plus or minus the k-th basis vector or any other unit vector of the
\* eigenspace.  An outcome is [eigvals, eigvecs] with the eigenvectors as
\* columns.
np_linalg_eig(L_) ==
  LET n == Rows(L_)
      w == np_array1([k \in 1..n |-> L_[k][k]])
      vectors == [k \in 1..n |->
                    {v \in UnitVectors(n) :
                       /\ MatVec(L_, v) = [j \in 1..n |-> CMul(w[k], v[j])]
                       /\ IsBasisVector(v) => v[k] # Zero}]
  IN  {[eigvals |-> w, eigvecs |-> np_array2(Transpose(cols))] :
         cols \in {c \in EigenvectorColumns(vectors, n) : Det(c) # Zero}}

\* np.round(x, 12); the blocks enumerated have eigenvalues with at most
\* nine decimals
HasNineDecimals(x) == 1000000000 % x[3] = 0
np_round(x) == x

\* variant without the sign flip
eigfun_column_unflipped(v, eigval, size, populations_only) ==
  LET shape == int_sqrt(size)
  IN  IF eigval # Zero THEN Returned(v)
      ELSE IF populations_only
      THEN Returned(np_array1([k \in 1..Len(v) |-> np_divide(v[k], SumUpTo(v, Len(v)))]))
      ELSE IF shape * shape # Len(v) THEN Raised("ValueError")
      ELSE Returned(np_array1([k \in 1..Len(v) |->
                                 np_divide(v[k], Trace(Reshape(v, shape, shape)))]))

\* the loop body of eigfun for one column: flip the sign, then divide a
\* column of eigenvalue 0 by its trace (its sum when populations_only)
eigfun_column(v, eigval, size, populations_only) ==
  LET max_index == argmax_abs(v)
      flipped == IF v[max_index][1] < 0 THEN [k \in 1..Len(v) |-> CNeg(v[k])] ELSE v
      shape == int_sqrt(size)
  IN  IF eigval # Zero THEN Returned(np_array1(flipped))
      ELSE IF populations_only
      THEN LET trace_norm == SumUpTo(flipped, Len(flipped))
           IN  Returned(np_array1([k \in 1..Len(v) |-> np_divide(flipped[k], trace_norm)]))
      ELSE IF shape * shape # Len(v) THEN Raised("ValueError")
      ELSE LET trace_norm == Trace(Reshape(flipped, shape, shape))
           IN  Returned(np_array1([k \in 1..Len(v) |-> np_divide(flipped[k], trace_norm)]))

NoEigensystem == [eigvals |-> <<>>, right |-> <<>>, left |-> <<>>]

\* eigfun(L, check_eigenvectors, populations_only) with invert left at True,
\* as every caller leaves it.  eig is what np.linalg.eig returned; allclose
\* is the outcome of the floating point comparison of left.L.right with
\* diag(eigvals); svd_converges is whether LAPACK's SVD inside pinv accepts
\* a matrix with nan entries.  The result is the raised error or the
\* returned triple, and whether the warning was emitted.
eigfun(L_, eig, populations_only, check_eigenvectors, allclose, svd_converges) ==
  LET n == Rows(L_)
      rounded == np_array1([k \in 1..n |-> np_round(eig.eigvals[k])])
      sort_indices == argsort(rounded)
      eigvals == np_array1([k \in 1..n |-> rounded[sort_indices[k]]])
      columns == np_array1([k \in 1..n |->
                    eigfun_column(Column(eig.eigvecs, sort_indices[k]), eigvals[k],
                                  n, populations_only)])
      eigvecs == np_array2(Transpose([k \in 1..n |-> columns[k].value]))
      finite == \A k \in 1..n : IsFinite(columns[k].value)
      eigvecs_left == IF finite THEN np_linalg_pinv(eigvecs)
                      ELSE np_array2([i \in 1..n |-> [j \in 1..n |-> NonFinite]])
  IN  IF \E k \in 1..n : columns[k].error # NoError
      THEN [error |-> "ValueError", warned |-> FALSE, value |-> NoEigensystem]
      ELSE IF ~finite /\ ~svd_converges
      THEN [error |-> "LinAlgError", warned |-> FALSE, value |-> NoEigensystem]
      ELSE [error |-> NoError,
            warned |-> check_eigenvectors /\ ~(finite /\ allclose),
            value |-> [eigvals |-> eigvals, right |-> eigvecs, left |-> eigvecs_left]]

\* ------------------------------------------------------------------------
\* Instruction lists of the full model.  The operators of the exciton and
\* vibrational families are built from eigenvectors and from the external
\* oscillator primitive, so an instruction is kept as a record: the family
\* whose builder produced it, which of the three Lindblad terms (or two
\* commutator terms) it is, the numeric rate factor gamma, the thermal
\* weight bf that multiplies it, and the jump operator O it is built from.
\* ------------------------------------------------------------------------
Operator(name, a, b, T) == [op |-> name, a |-> a, b |-> b, T |-> T]
OperatorT(O) == [O EXCEPT !.T = ~O.T]

\* thermal weight: component comp of boltzmann_factors for the two levels
\* a, b of the named kind, or a Bose occupation of vibration a
Weight(kind, manifold, a, b, comp) ==
  [kind |-> kind, manifold |-> manifold, a |-> a, b |-> b, comp |-> comp]
NoWeight == Weight("one", 0, 0, 0, 0)

Instruction(family, term, gamma, bf, O) ==
  [family |-> family, term |-> term, gamma |-> gamma, bf |-> bf, O |-> O,
   space |-> "electronic"]

\* the three instructions make_Lindblad_instructions(gamma * bf, O) returns
Lindblad_instruction_records(family, gamma, bf, O) ==
  << Instruction(family, "jump", gamma, bf, O),
     Instruction(family, "anticommutator_left", gamma, bf, O),
     Instruction(family, "anticommutator_right", gamma, bf, O) >>

\* the two instructions make_commutator_instructions(-1j * H) returns
commutator_instruction_records(family, O) ==
  << [Instruction(family, "commutator_left", One, NoWeight, O) EXCEPT !.space = "vibronic"],
     [Instruction(family, "commutator_right", One, NoWeight, O) EXCEPT !.space = "vibronic"] >>

RECURSIVE Concat(_, _)
Concat(lists, k) == IF k = 0 THEN <<>> ELSE Concat(lists, k - 1) \o lists[k]

optical_dephasing_instructions(gamma) ==
  Lindblad_instruction_records("optical_dephasing", gamma, NoWeight,
                               Operator("sz_total", 0, 0, FALSE))

site_to_site_dephasing_operator_list(n) ==
  LET pairs == combinations(n, 2)
  IN  [k \in 1..Len(pairs) |-> Operator("sz_difference", pairs[k][1], pairs[k][2], FALSE)]

all_site_dephasing_instructions(n, gamma) ==
  LET s_deph_list == site_to_site_dephasing_operator_list(n)
  IN  Concat([k \in 1..Len(s_deph_list) |->
                Lindblad_instruction_records("site_to_site_dephasing", gamma,
                                             NoWeight, s_deph_list[k])],
             Len(s_deph_list))

\* O = self.exchange_list[i], with i counting the pairs (n, m) from 0
site_to_site_decoherence_instructions(en, gamma) ==
  LET nm == combinations(Len(en), 2)
  IN  Concat([k \in 1..Len(nm) |->
                LET O == Operator("exchange_list", k - 1, 0, FALSE)
                IN  Lindblad_instruction_records("site_to_site_decoherence", gamma,
                        Weight("site", 1, nm[k][1], nm[k][2], 1), O)
                    \o Lindblad_instruction_records("site_to_site_decoherence", gamma,
                        Weight("site", 1, nm[k][1], nm[k][2], 2), OperatorT(O))],
             Len(nm))

exciton_exciton_dephasing_operator_list(n) ==
  LET pairs == combinations(n, 2)
  IN  [k \in 1..Len(pairs) |->
         Operator("exciton_sz_difference", pairs[k][1], pairs[k][2], FALSE)]

all_exciton_dephasing_instructions_unnormalized(n, exciton_gamma) ==
  LET s_deph_list == exciton_exciton_dephasing_operator_list(n)
  IN  Concat([k \in 1..Len(s_deph_list) |->
                Lindblad_instruction_records("exciton_exciton_dephasing", exciton_gamma,
                                             NoWeight, s_deph_list[k])],
             Len(s_deph_list))

all_exciton_dephasing_instructions(n, exciton_gamma) ==
  LET s_deph_list == exciton_exciton_dephasing_operator_list(n)
      gamma == CDivReal(exciton_gamma, Real(2 * n))
  IN  Concat([k \in 1..Len(s_deph_list) |->
                Lindblad_instruction_records("exciton_exciton_dephasing", gamma,
                                             NoWeight, s_deph_list[k])],
             Len(s_deph_list))

\* e.size is the dimension of the manifold
exciton_decoherence_instructions_by_manifold(occ_num, gamma, manifold_num) ==
  LET size == Len(mask_of(occ_num, manifold_num))
      mn == combinations(size, 2)
  IN  Concat([k \in 1..Len(mn) |->
                LET O == Operator("exciton_exchange", mn[k][1], mn[k][2], FALSE)
                IN  Lindblad_instruction_records("exciton_decoherence", gamma,
                        Weight("exciton", manifold_num, mn[k][1], mn[k][2], 1), O)
                    \o Lindblad_instruction_records("exciton_decoherence", gamma,
                        Weight("exciton", manifold_num, mn[k][1], mn[k][2], 2), OperatorT(O))],
             Len(mn))

\* eg = 0; bn is the weight of the upward jump of site n
optical_decoherence_instructions(en, kT_, gamma) ==
  Concat([k \in 1..Len(en) |->
            LET bn == boltzmann_factors(kT_, Zero, en[k]).value[2]
                O  == Operator("up_list", k - 1, 0, FALSE)
            IN  Lindblad_instruction_records("optical_decoherence", gamma,
                    Weight("optical", 1, k - 1, k - 1, 1), OperatorT(O))
                \o (IF np_isclose_zero(bn) THEN <<>>
                    ELSE Lindblad_instruction_records("optical_decoherence", gamma,
                            Weight("optical", 1, k - 1, k - 1, 2), O))],
         Len(en))

\* N = 1/(exp(E/kT) - 1) is 0 exactly when kT == 0 for the mode energies
\* and temperatures enumerated here
vibrational_dissipation_instructions(nvib, kT_, gamma) ==
  Concat([k \in 1..nvib |->
            LET O == Operator("vibrational_lowering", k - 1, 0, FALSE)
            IN  Lindblad_instruction_records("vibrational_relaxation", gamma,
                    Weight("bose_plus_one", 0, k - 1, k - 1, 1), O)
                \o (IF kT_ = Zero THEN <<>>
                    ELSE Lindblad_instruction_records("vibrational_relaxation", gamma,
                            Weight("bose", 0, k - 1, k - 1, 1), OperatorT(O)))],
         nvib)

convert_electronic_instructions_to_full_instructions(inst_list) ==
  [k \in 1..Len(inst_list) |-> [inst_list[k] EXCEPT !.space = "vibronic"]]

\* ------------------------------------------------------------------------
\* State: the fields of the object under construction, the last method
\* call made on it and what it returned
\* ------------------------------------------------------------------------
VARIABLES
  pc,                                  \* position in the constructors
  num_sites, energies, couplings,
  up_list, down_list, occupied_list, empty_list, exchange_list, sz_list,
  electronic_hamiltonian,
  electronic_total_occupation_number,
  optical_dephasing_gamma, optical_decoherence_gamma,
  site_to_site_dephasing_gamma, site_to_site_decoherence_gamma,
  exciton_decoherence_gamma, exciton_exciton_dephasing_gamma,
  vibrational_gamma, kT,
  manifolds_separable, num_vibrations,
  electronic_dissipation_instructions, all_instructions,
  call, ret,                           \* last call: name and arguments, result
  L, rho, drho,                        \* an assembled Liouvillian applied to rho
  written,                             \* per field, the constructor steps that wrote it
  L_by_manifold,
  eigenvalues, eigenvectors,           \* self.eigenvalues, self.eigenvectors
  eigenvalues_by_manifold, right_eigenvectors_by_manifold,
  left_eigenvectors_by_manifold,
  warnings,                            \* number of warnings emitted
  vibronic_mu_dict, H_eigenvectors,    \* dipole operator per polarization, H eigenvectors per manifold
  mu_by_manifold, boolean_mu_by_manifold,
  truncation_size, occupation_num_mask,  \* params['initial truncation size'], mask_by_occupation_num
  vibrational_mask, vibrational_identity,
  empty_vibrations, occupied_vibrations,
  empty_ups, occupied_ups,
  total_hamiltonian

vars ==
  <<pc, num_sites, energies, couplings,
    up_list, down_list, occupied_list, empty_list, exchange_list, sz_list,
    electronic_hamiltonian, electronic_total_occupation_number,
    optical_dephasing_gamma, optical_decoherence_gamma,
    site_to_site_dephasing_gamma, site_to_site_decoherence_gamma,
    exciton_decoherence_gamma, exciton_exciton_dephasing_gamma,
    vibrational_gamma, kT, manifolds_separable, num_vibrations,
    electronic_dissipation_instructions, all_instructions,
    call, ret, L, rho, drho, written,
    L_by_manifold, eigenvalues, eigenvectors,
    eigenvalues_by_manifold, right_eigenvectors_by_manifold,
    left_eigenvectors_by_manifold, warnings,
    vibronic_mu_dict, H_eigenvectors, mu_by_manifold, boolean_mu_by_manifold,
    truncation_size, occupation_num_mask, vibrational_mask, vibrational_identity,
    empty_vibrations, occupied_vibrations, empty_ups, occupied_ups,
    total_hamiltonian>>

operator_fields ==
  <<num_sites, energies, couplings,
    up_list, down_list, occupied_list, empty_list, exchange_list, sz_list,
    electronic_hamiltonian, electronic_total_occupation_number>>

rate_fields ==
  <<optical_dephasing_gamma, optical_decoherence_gamma,
    site_to_site_dephasing_gamma, site_to_site_decoherence_gamma,
    exciton_decoherence_gamma, exciton_exciton_dephasing_gamma,
    vibrational_gamma, kT, manifolds_separable>>

liouville_fields == <<L, rho, drho>>

eigen_fields ==
  <<eigenvalues, eigenvectors,
    eigenvalues_by_manifold, right_eigenvectors_by_manifold,
    left_eigenvectors_by_manifold, warnings>>

mu_fields == <<vibronic_mu_dict, H_eigenvectors, mu_by_manifold, boolean_mu_by_manifold>>

vibration_fields ==
  <<truncation_size, occupation_num_mask, vibrational_mask, vibrational_identity,
    empty_vibrations, occupied_vibrations, empty_ups, occupied_ups,
    total_hamiltonian>>

vibronic_fields == <<written, L_by_manifold, eigen_fields, mu_fields, vibration_fields>>

NoCall == [op |-> "none", args |-> <<>>]
Call(name, args) == [op |-> name, args |-> args]

\* nothing constructed yet
UnsetFields ==
  /\ num_sites = 0
  /\ energies = <<>>
  /\ couplings = <<>>
  /\ up_list = <<>>
  /\ down_list = <<>>
  /\ occupied_list = <<>>
  /\ empty_list = <<>>
  /\ exchange_list = <<>>
  /\ sz_list = <<>>
  /\ electronic_hamiltonian = <<>>
  /\ electronic_total_occupation_number = <<>>
  /\ optical_dephasing_gamma = Zero
  /\ optical_decoherence_gamma = Zero
  /\ site_to_site_dephasing_gamma = Zero
  /\ site_to_site_decoherence_gamma = Zero
  /\ exciton_decoherence_gamma = Zero
  /\ exciton_exciton_dephasing_gamma = Zero
  /\ vibrational_gamma = Zero
  /\ manifolds_separable = TRUE
  /\ num_vibrations = 0
  /\ electronic_dissipation_instructions = <<>>
  /\ all_instructions = <<>>
  /\ ret = Returned(<<>>)
  /\ L = <<>>
  /\ rho = <<>>
  /\ drho = <<>>

UnsetEigensystem ==
  /\ eigenvalues = <<>>
  /\ eigenvectors = <<>>
  /\ eigenvalues_by_manifold = <<>>
  /\ right_eigenvectors_by_manifold = <<>>
  /\ left_eigenvectors_by_manifold = <<>>
  /\ warnings = 0

UnsetMu ==
  /\ vibronic_mu_dict = <<>>
  /\ H_eigenvectors = <<>>
  /\ mu_by_manifold = <<>>
  /\ boolean_mu_by_manifold = <<>>

UnsetVibrations ==
  /\ truncation_size = 1
  /\ occupation_num_mask = TRUE
  /\ vibrational_mask = <<>>
  /\ vibrational_identity = <<>>
  /\ empty_vibrations = <<>>
  /\ occupied_vibrations = <<>>
  /\ empty_ups = <<>>
  /\ occupied_ups = <<>>
  /\ total_hamiltonian = <<>>

Unset ==
  /\ UnsetFields
  /\ UnsetEigensystem
  /\ UnsetMu
  /\ UnsetVibrations
  /\ call = NoCall
  /\ written = <<>>
  /\ L_by_manifold = <<>>

\* ------------------------------------------------------------------------
\* Inputs
\* ------------------------------------------------------------------------
NumPairs(n) == (n * (n - 1)) \div 2

\* site_energies, one excitation energy in 1..MaxEnergy per site: all sites
\* alike (d = 0) or neighbouring sites one unit apart, wrapping at MaxEnergy
EnergyLists(n) ==
  {[k \in 1..n |-> Real(1 + ((e - 1 + d * (k - 1)) % MaxEnergy))] :
     e \in 1..MaxEnergy, d \in {0, 1}}

\* site_couplings [J12, J13, ..., J1N, J23, ...]: one real coupling per
\* site pair, all different
CouplingLists(n) ==
  {[k \in 1..NumPairs(n) |-> Real(c + k - 1)] : c \in 1..MaxCoupling}

\* ------------------------------------------------------------------------
\* OpenPolymer.__init__
\* ------------------------------------------------------------------------
Init ==
  /\ pc = "start"
  /\ kT = Zero
  /\ Unset

OpenPolymerInit ==
  /\ pc = "start"
  /\ \E n \in 1..MaxSites :
       LET ups == make_single_operator_list(n, up)
           downs == make_single_operator_list(n, down)
           occs == make_single_operator_list(n, occupied)
           emps == make_single_operator_list(n, empty)
           exchs == make_multi_operator_list(n, <<up, down>>)
           szs == make_single_operator_list(n, sz)
           occ_num == make_electronic_total_occupation_number(n)
       IN  \E site_energies \in EnergyLists(n), site_couplings \in CouplingLists(n) :
             /\ num_sites' = n
             /\ energies' = site_energies
             /\ couplings' = site_couplings
             /\ up_list' = ups.value
             /\ down_list' = downs.value
             /\ occupied_list' = occs.value
             /\ empty_list' = emps.value
             /\ exchange_list' = exchs.value
             /\ sz_list' = szs.value
             /\ IF \E r \in {ups, downs, occs, emps, exchs, szs} : r.error # NoError
                THEN /\ pc' = "raised"
                     /\ electronic_hamiltonian' = <<>>
                     /\ electronic_total_occupation_number' = <<>>
                ELSE /\ pc' = "polymer"
                     /\ electronic_hamiltonian' =
                          make_electronic_hamiltonian(site_energies, site_couplings,
                                                      occs.value, exchs.value)
                     /\ electronic_total_occupation_number' = occ_num
  /\ optical_dephasing_gamma' = Frac(1, 10)
  /\ optical_decoherence_gamma' = Zero
  /\ site_to_site_dephasing_gamma' = Zero
  /\ site_to_site_decoherence_gamma' = Zero
  /\ exciton_decoherence_gamma' = Zero
  /\ exciton_exciton_dephasing_gamma' = Frac(1, 100)
  /\ kT' = One
  /\ UNCHANGED <<vibrational_gamma, manifolds_separable, num_vibrations,
                 electronic_dissipation_instructions, all_instructions,
                 call, ret, liouville_fields>>
  /\ UNCHANGED vibronic_fields

\* ------------------------------------------------------------------------
\* One method call on a constructed OpenPolymer (pc "called" afterwards);
\* the subclass constructor continues from "polymer"
\* ------------------------------------------------------------------------
electronic_manifold_mask(manifold_num) ==
  mask_of(electronic_total_occupation_number, manifold_num)

LocalOperators == {up, down}

\* element lists of every length 0..n+1: the operators at a position tuple
\* of their arity, or, when there are more operators than sites, at
\* positions that wrap around
ElementLists(n) ==
  UNION {
    LET positions == IF r <= n THEN {combinations(n, r)[k] : k \in 1..Len(combinations(n, r))}
                     ELSE {[k \in 1..r |-> (k - 1) % n]}
    IN  {Zip(o_list, pos_tuple) : o_list \in [1..r -> LocalOperators],
                                  pos_tuple \in positions}
    : r \in 0..(n + 1)}

OperatorLists(n) == UNION {[1..r -> LocalOperators] : r \in 0..(n + 1)}

Call_electronic_manifold_mask ==
  /\ pc = "polymer"
  /\ \E manifold_num \in 0..(num_sites + 1) :
       /\ call' = Call("electronic_manifold_mask", <<manifold_num>>)
       /\ ret' = Returned(electronic_manifold_mask(manifold_num))
  /\ pc' = "called"
  /\ UNCHANGED <<operator_fields, rate_fields, num_vibrations,
                 electronic_dissipation_instructions, all_instructions,
                 liouville_fields>>
  /\ UNCHANGED vibronic_fields

Call_electronic_identity_kron ==
  /\ pc = "polymer"
  /\ \E element_list \in ElementLists(num_sites) :
       /\ call' = Call("electronic_identity_kron", <<element_list>>)
       /\ ret' = electronic_identity_kron(num_sites, element_list)
  /\ pc' = "called"
  /\ UNCHANGED <<operator_fields, rate_fields, num_vibrations,
                 electronic_dissipation_instructions, all_instructions,
                 liouville_fields>>
  /\ UNCHANGED vibronic_fields

Call_make_multi_operator_list ==
  /\ pc = "polymer"
  /\ \E o_list \in OperatorLists(num_sites) :
       /\ call' = Call("make_multi_operator_list", <<o_list>>)
       /\ ret' = make_multi_operator_list(num_sites, o_list)
  /\ pc' = "called"
  /\ UNCHANGED <<operator_fields, rate_fields, num_vibrations,
                 electronic_dissipation_instructions, all_instructions,
                 liouville_fields>>
  /\ UNCHANGED vibronic_fields

\* self.L of a one-site system; with more sites the exciton dephasing and
\* decoherence terms need the eigenvectors of the Hamiltonian, which are not
\* rational
Call_make_total_Liouvillian ==
  /\ pc = "polymer"
  /\ num_sites = 1
  /\ call' = Call("make_total_Liouvillian", <<>>)
  /\ ret' = Returned(<<>>)
  /\ L' = make_total_Liouvillian(electronic_hamiltonian, sz_list, optical_dephasing_gamma)
  /\ pc' = "called"
  /\ UNCHANGED <<operator_fields, rate_fields, num_vibrations,
                 electronic_dissipation_instructions, all_instructions,
                 rho, drho>>
  /\ UNCHANGED vibronic_fields

\* ------------------------------------------------------------------------
\* OpenPolymerVibrations.__init__, after super().__init__
\* ------------------------------------------------------------------------
MaxVibrations == 1
MaxOverrides == 2

\* a key missing from the yaml parameters
Absent == <<>>

RateKeys ==
  {"optical_dephasing_gamma", "optical_decoherence_gamma",
   "site_to_site_dephasing_gamma", "site_to_site_decoherence_gamma",
   "exciton_decoherence_gamma", "exciton_exciton_dephasing_gamma",
   "vibrational_gamma"}

AllKeys == RateKeys \cup {"kT"}

\* value a present key takes: the rates present in one document are all 0
\* or all 1, and kT is 0 or 2
KeyValue(key, v) == IF key = "kT" THEN Real(2 * v["kT"]) ELSE Real(v["rates"])

\* yaml parameter documents that set at most MaxOverrides of the keys
ParamDocuments ==
  UNION {{[key \in AllKeys |-> IF key \in K THEN KeyValue(key, v) ELSE Absent] :
            v \in [{"rates", "kT"} -> {0, 1}]} :
         K \in {K \in SUBSET AllKeys : Cardinality(K) <= MaxOverrides}}

\* try: self.x = self.params[key]  except KeyError: keep or set the default
Override(params, key, default) ==
  IF params[key] = Absent THEN default ELSE params[key]

\* set_bath_coupling, then the manifolds_separable test
SetBathCoupling ==
  /\ pc = "polymer"
  /\ \E params \in ParamDocuments :
       /\ exciton_exciton_dephasing_gamma' =
            Override(params, "exciton_exciton_dephasing_gamma", exciton_exciton_dephasing_gamma)
       /\ exciton_decoherence_gamma' =
            Override(params, "exciton_decoherence_gamma", exciton_decoherence_gamma)
       /\ site_to_site_decoherence_gamma' =
            Override(params, "site_to_site_decoherence_gamma", site_to_site_decoherence_gamma)
       /\ site_to_site_dephasing_gamma' =
            Override(params, "site_to_site_dephasing_gamma", site_to_site_dephasing_gamma)
       /\ optical_dephasing_gamma' =
            Override(params, "optical_dephasing_gamma", optical_dephasing_gamma)
       /\ optical_decoherence_gamma' =
            Override(params, "optical_decoherence_gamma", optical_decoherence_gamma)
       /\ vibrational_gamma' = Override(params, "vibrational_gamma", Frac(1, 10))
       /\ kT' = Override(params, "kT", kT)
       /\ manifolds_separable' =
            (Override(params, "optical_decoherence_gamma", optical_decoherence_gamma) = Zero)
  /\ pc' = "bath"
  /\ call' = NoCall
  /\ ret' = Returned(<<>>)
  /\ UNCHANGED <<operator_fields, num_vibrations,
                 electronic_dissipation_instructions, all_instructions,
                 liouville_fields>>
  /\ UNCHANGED vibronic_fields

exciton_decoherence_instructions_all_manifolds(n, occ_num, gamma) ==
  Concat([i \in 1..n |-> exciton_decoherence_instructions_by_manifold(occ_num, gamma, i)], n)

make_electronic_dissipation_instructions ==
  optical_dephasing_instructions(optical_dephasing_gamma)
  \o (IF site_to_site_dephasing_gamma # Zero
      THEN all_site_dephasing_instructions(num_sites, site_to_site_dephasing_gamma)
      ELSE <<>>)
  \o (IF site_to_site_decoherence_gamma # Zero
      THEN site_to_site_decoherence_instructions(energies, site_to_site_decoherence_gamma)
      ELSE <<>>)
  \o (IF exciton_exciton_dephasing_gamma # Zero
      THEN all_exciton_dephasing_instructions(num_sites, exciton_exciton_dephasing_gamma)
      ELSE <<>>)
  \o (IF exciton_decoherence_gamma # Zero
      THEN exciton_decoherence_instructions_all_manifolds(
             num_sites, electronic_total_occupation_number, exciton_decoherence_gamma)
      ELSE <<>>)
  \o (IF optical_decoherence_gamma # Zero
      THEN optical_decoherence_instructions(energies, kT, optical_decoherence_gamma)
      ELSE <<>>)

SetElectronicDissipationInstructions ==
  /\ pc = "bath"
  /\ electronic_dissipation_instructions' = make_electronic_dissipation_instructions
  /\ pc' = "dissipation"
  /\ UNCHANGED <<operator_fields, rate_fields, num_vibrations, all_instructions,
                 call, ret, liouville_fields>>
  /\ UNCHANGED vibronic_fields

\* set_vibrations: one mode per entry of params['vibrations']
SetVibrations ==
  /\ pc = "dissipation"
  /\ \E nvib \in 0..MaxVibrations : num_vibrations' = nvib
  /\ pc' = "vibrations"
  /\ UNCHANGED <<operator_fields, rate_fields, electronic_dissipation_instructions,
                 all_instructions, call, ret, liouville_fields>>
  /\ UNCHANGED vibronic_fields

\* the two branches that assemble self.all_instructions
SetAllInstructions ==
  /\ pc = "vibrations"
  /\ \E force_detailed_balance \in BOOLEAN :
       all_instructions' =
         IF force_detailed_balance
         THEN commutator_instruction_records("hamiltonian",
                                             Operator("total_hamiltonian", 0, 0, FALSE))
         ELSE convert_electronic_instructions_to_full_instructions(
                electronic_dissipation_instructions)
              \o commutator_instruction_records("hamiltonian",
                                                Operator("total_hamiltonian", 0, 0, FALSE))
              \o vibrational_dissipation_instructions(num_vibrations, kT, vibrational_gamma)
  /\ pc' = "instructions"
  /\ UNCHANGED <<operator_fields, rate_fields, num_vibrations,
                 electronic_dissipation_instructions, call, ret, liouville_fields>>
  /\ UNCHANGED vibronic_fields

Next ==
  \/ OpenPolymerInit
  \/ Call_electronic_manifold_mask
  \/ Call_electronic_identity_kron
  \/ Call_make_multi_operator_list
  \/ Call_make_total_Liouvillian
  \/ SetBathCoupling
  \/ SetElectronicDissipationInstructions
  \/ SetVibrations
  \/ SetAllInstructions

Spec == Init /\ [][Next]_vars

\* ------------------------------------------------------------------------
\* The detailed balance weights called on an object whose kT is configured
\* ------------------------------------------------------------------------
ConfiguredKT == {Zero, One, Real(2)}

\* level energies: small ones, one whose weight is below the isclose
\* tolerance (exp(-20)), two whose weights underflow to 0.0
ThermalEnergies ==
  {Real(e) : e \in 0..MaxEnergy} \cup {Real(20), Real(1500), Real(3000)}

InitThermal ==
  /\ pc = "thermal"
  /\ kT \in ConfiguredKT
  /\ Unset

Call_boltzmann_factors ==
  /\ pc = "thermal"
  /\ \E E1 \in ThermalEnergies, E2 \in ThermalEnergies :
       /\ call' = Call("boltzmann_factors", <<E1, E2>>)
       /\ ret' = boltzmann_factors(kT, E1, E2)
  /\ pc' = "called"
  /\ UNCHANGED <<operator_fields, rate_fields, num_vibrations,
                 electronic_dissipation_instructions, all_instructions,
                 liouville_fields>>
  /\ UNCHANGED vibronic_fields

\* E1 must be less than E2
Call_boltzmann_factors_ordered_inputs ==
  /\ pc = "thermal"
  /\ \E E1 \in ThermalEnergies, E2 \in ThermalEnergies :
       /\ RLess(E1, E2)
       /\ call' = Call("boltzmann_factors_ordered_inputs", <<E1, E2>>)
       /\ ret' = boltzmann_factors_ordered_inputs(kT, E1, E2)
  /\ pc' = "called"
  /\ UNCHANGED <<operator_fields, rate_fields, num_vibrations,
                 electronic_dissipation_instructions, all_instructions,
                 liouville_fields>>
  /\ UNCHANGED vibronic_fields

NextThermal ==
  \/ Call_boltzmann_factors
  \/ Call_boltzmann_factors_ordered_inputs

SpecThermal == InitThermal /\ [][NextThermal]_vars

\* ------------------------------------------------------------------------
\* The dissipator library and the assembler called on matrices: build an
\* instruction list, assemble it, apply the result to a vectorized rho
\* ------------------------------------------------------------------------
MatrixEntries == {Zero, One, <<0, 1, 1>>}

SquareMatrices == UNION {[1..d -> [1..d -> MatrixEntries]] : d \in {1, 2}}

Matrices(r, c) == [1..r -> [1..c -> MatrixEntries]]

\* ket and bra operators of a coherence block: any two sizes, one of them 1
KetBraPairs ==
  {p \in SquareMatrices \X SquareMatrices : Rows(p[1]) = 1 \/ Rows(p[2]) = 1}

LindbladRates == {Zero, Frac(1, 10), One}

InitLibrary ==
  /\ pc = "library"
  /\ kT = Zero
  /\ Unset

UNCHANGED_object ==
  UNCHANGED <<operator_fields, rate_fields, num_vibrations,
              electronic_dissipation_instructions, all_instructions,
              vibronic_fields>>

Call_make_Lindblad_instructions ==
  /\ pc = "library"
  /\ \E gamma \in LindbladRates, O \in SquareMatrices :
       /\ call' = Call("make_Lindblad_instructions", <<gamma, O>>)
       /\ ret' = Returned(make_Lindblad_instructions(gamma, O))
  /\ pc' = "instructions"
  /\ UNCHANGED_object
  /\ UNCHANGED liouville_fields

Call_make_commutator_instructions ==
  /\ pc = "library"
  /\ \E O \in SquareMatrices :
       /\ call' = Call("make_commutator_instructions", <<O>>)
       /\ ret' = Returned(make_commutator_instructions(O))
  /\ pc' = "instructions"
  /\ UNCHANGED_object
  /\ UNCHANGED liouville_fields

Call_make_commutator_instructions2 ==
  /\ pc = "library"
  /\ \E p \in KetBraPairs :
       /\ call' = Call("make_commutator_instructions2", p)
       /\ ret' = Returned(make_commutator_instructions2(p[1], p[2]))
  /\ pc' = "instructions"
  /\ UNCHANGED_object
  /\ UNCHANGED liouville_fields

Call_make_Liouvillian ==
  /\ pc = "instructions"
  /\ L' = make_Liouvillian(ret.value)
  /\ pc' = "assembled"
  /\ UNCHANGED_object
  /\ UNCHANGED <<call, ret, rho, drho>>

\* L.dot(rho.ravel()) for a rho with one row per ket state and one column
\* per bra state
ApplyLiouvillian ==
  /\ pc = "assembled"
  /\ \E rho_in \in Matrices(Rows(ret.value[1][1]), Rows(ret.value[1][2])) :
       /\ rho' = rho_in
       /\ drho' = MatVec(L, Ravel(rho_in))
  /\ pc' = "applied"
  /\ UNCHANGED_object
  /\ UNCHANGED <<call, ret, L>>

NextLibrary ==
  \/ Call_make_Lindblad_instructions
  \/ Call_make_commutator_instructions
  \/ Call_make_commutator_instructions2
  \/ Call_make_Liouvillian
  \/ ApplyLiouvillian

SpecLibrary == InitLibrary /\ [][NextLibrary]_vars

\* ------------------------------------------------------------------------
\* The two constructors step by step: which statement of
\* OpenPolymerVibrations.__init__ (and of OpenPolymer.__init__ under it)
\* assigns or mutates which field.  written[f] lists, in program order, the
\* constructor steps that wrote field f; the values of the fields are those
\* of Spec and are not repeated here.
\* ------------------------------------------------------------------------
Fields ==
  {"mu_dict", "mu", "mu_ket_up", "electronic_hamiltonian",
   "exciton_energies", "electronic_eigenvectors", "electronic_eigenvalues",
   "rates", "electronic_dissipation_instructions",
   "total_hamiltonian", "H_eigenvalues", "H_eigenvectors", "vibronic_mu_dict",
   "all_instructions", "L_by_manifold", "L",
   "eigenvalues", "eigenvectors", "eigenvalues_by_manifold",
   "mu_by_manifold"}

NoWrites == [f \in Fields |-> <<>>]

\* step writes every field of fs (an assignment or an in-place update)
Write(w, step, fs) ==
  [f \in Fields |-> IF f \in fs THEN Append(w[f], step) ELSE w[f]]

\* most excitations kept: min(params['maximum_manifold'], num_sites)
MaxManifold == 1

force_detailed_balance == call.args[1]
for_RK == call.args[2]
maximum_manifold == call.args[3]

UNCHANGED_values ==
  UNCHANGED <<operator_fields, vibrational_gamma, kT,
              optical_dephasing_gamma,
              site_to_site_dephasing_gamma, site_to_site_decoherence_gamma,
              exciton_decoherence_gamma, exciton_exciton_dephasing_gamma,
              num_vibrations, electronic_dissipation_instructions,
              all_instructions, call, liouville_fields,
              L_by_manifold, eigen_fields, mu_fields, vibration_fields>>

InitStages ==
  /\ pc = "new"
  /\ kT = Zero
  /\ UnsetFields
  /\ UnsetEigensystem
  /\ UnsetMu
  /\ UnsetVibrations
  /\ L_by_manifold = <<>>
  /\ written = NoWrites
  /\ \E fdb \in BOOLEAN, rk \in BOOLEAN, m \in 0..MaxManifold :
       call = Call("OpenPolymerVibrations", <<fdb, rk, m>>)

\* lines 57-59: make_mu_dict_site_basis assigns self.mu once per
\* polarization, make_mu_site_basis('x') assigns it again
Stage_make_mu_site_basis ==
  /\ pc = "new"
  /\ written' = Write(Write(Write(written, "make_mu_dict_site_basis", {"mu_dict", "mu"}),
                            "make_mu_site_basis", {"mu"}),
                      "make_mu_up_site_basis", {"mu_ket_up"})
  /\ pc' = "make_mu_up_site_basis"
  /\ UNCHANGED_values
  /\ UNCHANGED <<optical_decoherence_gamma, manifolds_separable, ret>>

Stage_set_electronic_hamiltonian ==
  /\ pc = "make_mu_up_site_basis"
  /\ written' = Write(written, "set_electronic_hamiltonian", {"electronic_hamiltonian"})
  /\ pc' = "set_electronic_hamiltonian"
  /\ UNCHANGED_values
  /\ UNCHANGED <<optical_decoherence_gamma, manifolds_separable, ret>>

\* variant that assigns nothing before the test
Stage_set_electronic_eigensystem_without_exciton_energies ==
  /\ pc = "set_electronic_hamiltonian"
  /\ \E allclose \in BOOLEAN :
       IF allclose
       THEN /\ written' = Write(written, "set_electronic_eigensystem",
                                {"electronic_eigenvectors", "electronic_eigenvalues"})
            /\ ret' = Returned(<<>>)
            /\ pc' = "set_electronic_eigensystem"
       ELSE /\ written' = written
            /\ ret' = Raised("Diagonalization by manifold failed")
            /\ pc' = "raised"
  /\ UNCHANGED_values
  /\ UNCHANGED <<optical_decoherence_gamma, manifolds_separable>>

\* set_manifold_eigensystems, set_electronic_eigensystem: exciton_energies is
\* assigned inside the loop, before the test; np.allclose(Hd, d) compares
\* floating point products and is taken either way
Stage_set_electronic_eigensystem ==
  /\ pc = "set_electronic_hamiltonian"
  /\ \E allclose \in BOOLEAN :
       LET w == Write(written, "set_electronic_eigensystem", {"exciton_energies"})
       IN  IF allclose
           THEN /\ written' = Write(w, "set_electronic_eigensystem",
                                    {"electronic_eigenvectors", "electronic_eigenvalues"})
                /\ ret' = Returned(<<>>)
                /\ pc' = "set_electronic_eigensystem"
           ELSE /\ written' = w
                /\ ret' = Raised("Diagonalization by manifold failed")
                /\ pc' = "raised"
  /\ UNCHANGED_values
  /\ UNCHANGED <<optical_decoherence_gamma, manifolds_separable>>

\* lines 69-75, then set_bath_coupling and the manifolds_separable test
Stage_set_bath_coupling ==
  /\ pc = "set_electronic_eigensystem"
  /\ \E gamma \in {Zero, One} :
       /\ optical_decoherence_gamma' = gamma
       /\ manifolds_separable' = (gamma = Zero)
  /\ written' = Write(Write(written, "OpenPolymer.__init__", {"rates"}),
                      "set_bath_coupling", {"rates"})
  /\ pc' = "set_bath_coupling"
  /\ UNCHANGED_values
  /\ UNCHANGED ret

Stage_set_electronic_dissipation_instructions ==
  /\ pc = "set_bath_coupling"
  /\ written' = Write(written, "set_electronic_dissipation_instructions",
                      {"electronic_dissipation_instructions"})
  /\ pc' = "set_electronic_dissipation_instructions"
  /\ UNCHANGED_values
  /\ UNCHANGED <<optical_decoherence_gamma, manifolds_separable, ret>>

\* set_vibrations, set_vibrational_ladder_operators, then
\* self.total_hamiltonian = np.kron(e_ham, self.vibrational_identity)
Stage_total_hamiltonian ==
  /\ pc = "set_electronic_dissipation_instructions"
  /\ written' = Write(written, "OpenPolymerVibrations.__init__", {"total_hamiltonian"})
  /\ pc' = "total_hamiltonian"
  /\ UNCHANGED_values
  /\ UNCHANGED <<optical_decoherence_gamma, manifolds_separable, ret>>

\* variant that leaves total_hamiltonian as assigned in __init__
Stage_add_vibrations_unassigned ==
  /\ pc = "total_hamiltonian"
  /\ written' = written
  /\ pc' = "add_vibrations"
  /\ UNCHANGED_values
  /\ UNCHANGED <<optical_decoherence_gamma, manifolds_separable, ret>>

\* self.total_hamiltonian = self.total_hamiltonian + self.vibrational_hamiltonian
Stage_add_vibrations ==
  /\ pc = "total_hamiltonian"
  /\ written' = Write(written, "add_vibrations", {"total_hamiltonian"})
  /\ pc' = "add_vibrations"
  /\ UNCHANGED_values
  /\ UNCHANGED <<optical_decoherence_gamma, manifolds_separable, ret>>

\* set_H_eigsystem_by_manifold, make_condon_mu, make_condon_mu_dict
Stage_make_condon_mu ==
  /\ pc = "add_vibrations"
  /\ written' = Write(Write(Write(written, "set_H_eigsystem_by_manifold",
                                  {"H_eigenvalues", "H_eigenvectors"}),
                            "make_condon_mu", {"mu", "mu_ket_up"}),
                      "make_condon_mu_dict", {"vibronic_mu_dict"})
  /\ pc' = "make_condon_mu_dict"
  /\ UNCHANGED_values
  /\ UNCHANGED <<optical_decoherence_gamma, manifolds_separable, ret>>

\* self.all_instructions = ..., and in the branch without detailed balance
\* two more lists appended with +=, all in the body of __init__
Stage_all_instructions ==
  /\ pc = "make_condon_mu_dict"
  /\ written' = Write(written, "OpenPolymerVibrations.__init__", {"all_instructions"})
  /\ pc' = "all_instructions"
  /\ UNCHANGED_values
  /\ UNCHANGED <<optical_decoherence_gamma, manifolds_separable, ret>>

Stage_set_L_by_manifold ==
  /\ pc = "all_instructions"
  /\ force_detailed_balance \/ manifolds_separable
  /\ written' = Write(written, "set_L_by_manifold", {"L_by_manifold"})
  /\ pc' = IF force_detailed_balance THEN "set_L_by_manifold" ELSE "L_construction"
  /\ UNCHANGED_values
  /\ UNCHANGED <<optical_decoherence_gamma, manifolds_separable, ret>>

Stage_set_L ==
  /\ pc = "all_instructions"
  /\ ~force_detailed_balance /\ ~manifolds_separable
  /\ written' = Write(written, "set_L", {"L"})
  /\ pc' = "L_construction"
  /\ UNCHANGED_values
  /\ UNCHANGED <<optical_decoherence_gamma, manifolds_separable, ret>>

\* L = self.L_by_manifold[key]; L += ...   for every block
Stage_add_eigenstate_decoherence_effects ==
  /\ pc = "set_L_by_manifold"
  /\ written' = Write(written, "add_eigenstate_decoherence_effects", {"L_by_manifold"})
  /\ pc' = "add_eigenstate_decoherence_effects"
  /\ UNCHANGED_values
  /\ UNCHANGED <<optical_decoherence_gamma, manifolds_separable, ret>>

\* L = self.L_by_manifold[key]; L += ...   for every block with k != l
Stage_add_eigenstate_optical_dephasing_effects ==
  /\ pc = "add_eigenstate_decoherence_effects"
  /\ written' = IF maximum_manifold >= 1
                THEN Write(written, "add_eigenstate_optical_dephasing_effects",
                           {"L_by_manifold"})
                ELSE written
  /\ pc' = "L_construction"
  /\ UNCHANGED_values
  /\ UNCHANGED <<optical_decoherence_gamma, manifolds_separable, ret>>

\* eigfun or eigfun2 for every block assigns self.eigenvalues and
\* self.eigenvectors
Stage_set_eigensystem_by_manifold ==
  /\ pc = "L_construction"
  /\ ~for_RK /\ manifolds_separable
  /\ written' = Write(written, "set_eigensystem_by_manifold",
                      {"eigenvalues", "eigenvectors", "eigenvalues_by_manifold"})
  /\ pc' = "set_eigensystem_by_manifold"
  /\ UNCHANGED_values
  /\ UNCHANGED <<optical_decoherence_gamma, manifolds_separable, ret>>

\* self.eigfun(self.L); with force_detailed_balance self.L was never assigned
Stage_set_eigensystem ==
  /\ pc = "L_construction"
  /\ ~for_RK /\ ~manifolds_separable
  /\ IF force_detailed_balance
     THEN /\ written' = written
          /\ ret' = Raised("AttributeError")
          /\ pc' = "raised"
     ELSE /\ written' = Write(written, "set_eigensystem", {"eigenvalues", "eigenvectors"})
          /\ ret' = Returned(<<>>)
          /\ pc' = "saved"
  /\ UNCHANGED_values
  /\ UNCHANGED <<optical_decoherence_gamma, manifolds_separable>>

\* set_mu_by_manifold and the save_ calls after it; save_L_by_manifold needs
\* self.L_by_manifold
Stage_set_mu_by_manifold ==
  /\ \/ pc = "L_construction" /\ for_RK
     \/ pc = "set_eigensystem_by_manifold"
  /\ written' = Write(written, "set_mu_by_manifold", {"mu_by_manifold"})
  /\ IF for_RK /\ written["L_by_manifold"] = <<>>
     THEN /\ ret' = Raised("AttributeError")
          /\ pc' = "raised"
     ELSE /\ ret' = Returned(<<>>)
          /\ pc' = "saved"
  /\ UNCHANGED_values
  /\ UNCHANGED <<optical_decoherence_gamma, manifolds_separable>>

Stage_save_timings ==
  /\ pc = "saved"
  /\ pc' = "done"
  /\ UNCHANGED_values
  /\ UNCHANGED <<optical_decoherence_gamma, manifolds_separable, ret, written>>

NextStages ==
  \/ Stage_make_mu_site_basis
  \/ Stage_set_electronic_hamiltonian
  \/ Stage_set_electronic_eigensystem
  \/ Stage_set_bath_coupling
  \/ Stage_set_electronic_dissipation_instructions
  \/ Stage_total_hamiltonian
  \/ Stage_add_vibrations
  \/ Stage_make_condon_mu
  \/ Stage_all_instructions
  \/ Stage_set_L_by_manifold
  \/ Stage_set_L
  \/ Stage_add_eigenstate_decoherence_effects
  \/ Stage_add_eigenstate_optical_dephasing_effects
  \/ Stage_set_eigensystem_by_manifold
  \/ Stage_set_eigensystem
  \/ Stage_set_mu_by_manifold
  \/ Stage_save_timings

SpecStages == InitStages /\ [][NextStages]_vars

\* ------------------------------------------------------------------------
\* eigfun called on a block, and the loop of set_eigensystem_by_manifold
\* over the blocks of a one-site system
\* ------------------------------------------------------------------------
MaxDecay == 1

BlockSizes == {1, 2, 3}

Decays == {Real(-k) : k \in 0..MaxDecay}

np_diag(d) == [i \in 1..Len(d) |-> [j \in 1..Len(d) |-> IF i = j THEN d[i] ELSE Zero]]

DiagonalBlocks == UNION {{np_diag(d) : d \in [1..n -> Decays]} : n \in BlockSizes}

\* a block whose only stationary vector, (2, -1, -2)/3, has components of
\* both signs
KernelBlock ==
  << <<Zero, Zero, Zero>>,
     <<Frac(-1, 2), Real(-1), Zero>>,
     <<Real(-2), Zero, Real(-2)>> >>

\* self.L of a one-site system of energy E with optical dephasing only
OneSiteLiouvillian(E, gamma) ==
  make_total_Liouvillian(
    make_electronic_hamiltonian(<<Real(E)>>, <<>>,
                                make_single_operator_list(1, occupied).value, <<>>),
    make_single_operator_list(1, sz).value, gamma)

DephasingRates == {Zero, Frac(1, 10)}

OneSiteLiouvillians ==
  {OneSiteLiouvillian(E, gamma) : E \in 1..MaxEnergy, gamma \in DephasingRates}

\* block '11' of two uncoupled sites of equal energy without exciton
\* dephasing: nothing moves or decays inside the one-excitation manifold
UncoupledDimerBlock == np_zeros(4, 4)

EigfunBlocks ==
  DiagonalBlocks \cup {KernelBlock, UncoupledDimerBlock} \cup OneSiteLiouvillians

\* key = str(i) + str(j)
Digits == <<"0", "1", "2", "3", "4", "5", "6", "7", "8", "9">>
\* str(k) of a non-negative integer: its decimal digits
RECURSIVE str(_)
str(k) == IF k < 10 THEN Digits[k + 1] ELSE str(k \div 10) \o Digits[(k % 10) + 1]

ManifoldKey(i, j) == str(i) \o str(j)

\* the keys in the order of the two nested loops
KeyOrder(m) ==
  [k \in 1..((m + 1) * (m + 1)) |-> ManifoldKey((k - 1) \div (m + 1), (k - 1) % (m + 1))]

\* set_L_by_manifold for one site without vibrations: every manifold has
\* one state, and block (i, j) is the entry of the diagonal self.L at the
\* row-major position of (i, j)
set_L_by_manifold_one_site(L_, m) ==
  [key \in {ManifoldKey(i, j) : i \in 0..m, j \in 0..m} |->
     LET ij == CHOOSE ij \in (0..m) \X (0..m) : ManifoldKey(ij[1], ij[2]) = key
     IN  << <<L_[2 * ij[1] + ij[2] + 1][2 * ij[1] + ij[2] + 1]>> >>]

InitEigfun ==
  /\ kT = Zero
  /\ UnsetFields
  /\ UnsetEigensystem
  /\ UnsetMu
  /\ UnsetVibrations
  /\ call = NoCall
  /\ written = <<>>
  /\ \/ /\ pc = "eigfun"
        /\ L_by_manifold = <<>>
     \/ /\ pc = "blocks"
        /\ \E L_ \in OneSiteLiouvillians, m \in 0..MaxManifold :
             \* self.maximum_manifold = min(maximum_manifold, num_sites)
             L_by_manifold = set_L_by_manifold_one_site(L_, IF m < 1 THEN m ELSE 1)

UNCHANGED_before_eigfun ==
  UNCHANGED <<operator_fields, rate_fields, num_vibrations,
              electronic_dissipation_instructions, all_instructions,
              liouville_fields, written, L_by_manifold, mu_fields, vibration_fields>>

\* variant in which a block that fails the check is not stored
\* (call.eig records what np.linalg.eig returned inside the call)
Call_eigfun_discarding ==
  /\ pc = "eigfun"
  /\ \E L_ \in EigfunBlocks :
     \E eig \in np_linalg_eig(L_) :
     \E populations_only \in BOOLEAN, check_eigenvectors \in BOOLEAN,
        allclose \in BOOLEAN, svd_converges \in BOOLEAN :
       /\ \A k \in 1..Rows(L_) : HasNineDecimals(L_[k][k])
       /\ check_eigenvectors \/ allclose
       /\ \E r \in {eigfun(L_, eig, populations_only, check_eigenvectors,
                             allclose, svd_converges)} :
           /\ call' = [op |-> "eigfun", eig |-> eig,
                       args |-> <<L_, populations_only, check_eigenvectors>>]
           /\ IF r.error # NoError
              THEN /\ ret' = Raised(r.error)
                   /\ pc' = "raised"
                   /\ UNCHANGED <<eigenvalues, eigenvectors>>
              ELSE /\ ret' = Returned(<<r.value.eigvals, r.value.right, r.value.left>>)
                   /\ pc' = "called"
                   /\ IF r.warned THEN UNCHANGED <<eigenvalues, eigenvectors>>
                      ELSE /\ eigenvalues' = r.value.eigvals
                           /\ eigenvectors' = [left |-> r.value.left, right |-> r.value.right]
           /\ warnings' = IF r.warned THEN warnings + 1 ELSE warnings
  /\ UNCHANGED <<eigenvalues_by_manifold, right_eigenvectors_by_manifold,
                 left_eigenvectors_by_manifold>>
  /\ UNCHANGED_before_eigfun

\* self.eigfun(L, check_eigenvectors = ..., populations_only = ...)
Call_eigfun ==
  /\ pc = "eigfun"
  /\ \E L_ \in EigfunBlocks :
     \E eig \in np_linalg_eig(L_) :
     \E populations_only \in BOOLEAN, check_eigenvectors \in BOOLEAN,
        allclose \in BOOLEAN, svd_converges \in BOOLEAN :
       /\ \A k \in 1..Rows(L_) : HasNineDecimals(L_[k][k])
       /\ check_eigenvectors \/ allclose
       /\ \E r \in {eigfun(L_, eig, populations_only, check_eigenvectors,
                             allclose, svd_converges)} :
           /\ call' = [op |-> "eigfun", eig |-> eig,
                       args |-> <<L_, populations_only, check_eigenvectors>>]
           /\ IF r.error # NoError
              THEN /\ ret' = Raised(r.error)
                   /\ pc' = "raised"
                   /\ UNCHANGED <<eigenvalues, eigenvectors>>
              ELSE /\ ret' = Returned(<<r.value.eigvals, r.value.right, r.value.left>>)
                   /\ pc' = "called"
                   /\ eigenvalues' = r.value.eigvals
                   /\ eigenvectors' = [left |-> r.value.left, right |-> r.value.right]
           /\ warnings' = IF r.warned THEN warnings + 1 ELSE warnings
  /\ UNCHANGED <<eigenvalues_by_manifold, right_eigenvectors_by_manifold,
                 left_eigenvectors_by_manifold>>
  /\ UNCHANGED_before_eigfun

\* python dict: d[key] = value
DictSet(d, key, value) == (key :> value) @@ d

\* one pass of the loop body of set_eigensystem_by_manifold without
\* force_detailed_balance: e, r, l = self.eigfun(self.L_by_manifold[key])
Loop_set_eigensystem_by_manifold ==
  /\ pc \in {"blocks", "set_eigensystem_by_manifold"}
  /\ LET keys == KeyOrder(int_sqrt(Cardinality(DOMAIN L_by_manifold)) - 1)
         done == Cardinality(DOMAIN eigenvalues_by_manifold)
         key == keys[done + 1]
     IN  \E eig \in np_linalg_eig(L_by_manifold[key]),
            allclose \in BOOLEAN, svd_converges \in BOOLEAN :
           \E r \in {eigfun(L_by_manifold[key], eig, FALSE, TRUE, allclose, svd_converges)} :
               /\ call' = [op |-> "eigfun", eig |-> eig,
                           args |-> <<L_by_manifold[key], FALSE, TRUE>>]
               /\ IF r.error # NoError
                  THEN /\ ret' = Raised(r.error)
                       /\ pc' = "raised"
                       /\ UNCHANGED <<eigenvalues, eigenvectors, eigenvalues_by_manifold,
                                      right_eigenvectors_by_manifold,
                                      left_eigenvectors_by_manifold>>
                  ELSE /\ ret' = Returned(<<r.value.eigvals, r.value.right, r.value.left>>)
                       /\ eigenvalues' = r.value.eigvals
                       /\ eigenvectors' = [left |-> r.value.left, right |-> r.value.right]
                       /\ right_eigenvectors_by_manifold' =
                            DictSet(right_eigenvectors_by_manifold, key, r.value.right)
                       /\ left_eigenvectors_by_manifold' =
                            DictSet(left_eigenvectors_by_manifold, key, r.value.left)
                       /\ eigenvalues_by_manifold' =
                            DictSet(eigenvalues_by_manifold, key, r.value.eigvals)
                       /\ pc' = IF done + 1 = Len(keys) THEN "eigensystem_by_manifold"
                                ELSE "set_eigensystem_by_manifold"
               /\ warnings' = IF r.warned THEN warnings + 1 ELSE warnings
  /\ UNCHANGED_before_eigfun

NextEigfun ==
  \/ Call_eigfun
  \/ Loop_set_eigensystem_by_manifold

SpecEigfun == InitEigfun /\ [][NextEigfun]_vars

\* ------------------------------------------------------------------------
\* Dipole operators by manifold
\* ------------------------------------------------------------------------
\* Dipole components are held in units of 10^-7, so that the sum of three
\* squared magnitudes is in units of 10^-14 and rounding to 12 decimals
\* decides between neighbouring multiples of 100 such units.
pols == <<"x", "y", "z">>

None == "None"

\* self.mu after make_mu_site_basis(pol); d is the pol component of every
\* site's dipole
make_mu_site_basis(n, d) ==
  LET up_list_ == make_single_operator_list(n, up).value
      down_list_ == make_single_operator_list(n, down).value
  IN  np_array2(MatSumUpTo([i \in 1..n |->
                   MatScale(d[i], MatAdd(up_list_[i], down_list_[i]))], n))

\* vibronic_mu_dict without vibrations: kron(mu_dict[pol], eye(1))
make_condon_mu_dict(n, dipoles) ==
  [pol \in {"x", "y", "z"} |->
     LET p == CHOOSE p \in 1..3 : pols[p] = pol
     IN  np_array2(np_kron(make_mu_site_basis(n, [i \in 1..n |-> dipoles[i][p]]),
                           np_eye(1)))]

\* O[manifold1_inds, :][:, manifold2_inds]
extract_vibronic_coherence(O, manifold1, manifold2) ==
  LET manifold1_inds == mask_of(electronic_total_occupation_number, manifold1)
      manifold2_inds == mask_of(electronic_total_occupation_number, manifold2)
  IN  [a \in 1..Len(manifold1_inds) |-> [b \in 1..Len(manifold2_inds) |->
         O[manifold1_inds[a] + 1][manifold2_inds[b] + 1]]]

\* extract_vibronic_manifold(self.total_hamiltonian, k).shape[0]
ManifoldSize(k) == Len(mask_of(electronic_total_occupation_number, k))

\* np.allclose(np.imag(mu), 0) with the default atol = 1e-8
np_allclose_imag_zero(M) ==
  \A a \in 1..Rows(M) : \A b \in 1..Cols(M) :
    Abs(M[a][b][2]) <= M[a][b][3] \div AtolInverse

np_real(M) ==
  [a \in 1..Rows(M) |-> [b \in 1..Cols(M) |-> Norm(M[a][b][1], 0, M[a][b][3])]]

\* if np.allclose(np.imag(mu), 0): mu = np.real(mu)
np_real_if_close(mu) ==
  IF np_allclose_imag_zero(mu) THEN np_array2(np_real(mu)) ELSE mu

\* mu_3d[:, :, i] = all_mus[i]
mu_3d(all_mus) ==
  np_array2([a \in 1..Rows(all_mus[1]) |-> [b \in 1..Cols(all_mus[1]) |->
     <<all_mus[1][a][b], all_mus[2][a][b], all_mus[3][a][b]>>]])

\* the tensor before the Liouvillian eigenvectors are applied
make_mu_by_manifold_ket_site(i, j, i2, H_eigentransform) ==
  np_array1([p \in 1..3 |->
     LET mu == extract_vibronic_coherence(vibronic_mu_dict[pols[p]], i2, i)
         Vold == H_eigenvectors[i + 1]
         Vnew == H_eigenvectors[i2 + 1]
     IN  np_array2(np_kron(IF H_eigentransform
                           THEN np_dot(Transpose(Vnew), np_array2(np_dot(mu, Vold)))
                           ELSE mu,
                           np_eye(ManifoldSize(j))))])

make_mu_by_manifold_bra_site(i, j, j2, H_eigentransform) ==
  np_array1([p \in 1..3 |->
     LET mu == extract_vibronic_coherence(vibronic_mu_dict[pols[p]], j, j2)
         Vold == H_eigenvectors[j + 1]
         Vnew == H_eigenvectors[j2 + 1]
     IN  np_array2(np_kron(np_eye(ManifoldSize(i)),
                           Transpose(IF H_eigentransform
                                     THEN np_dot(Transpose(Vold), np_array2(np_dot(mu, Vnew)))
                                     ELSE mu)))])

\* the rest of the loop over pols, the same in both builders
eigentransform_skipped(all_mus, old_key, new_key, L_eigentransform) ==
  np_array1([p \in 1..3 |-> np_real_if_close(all_mus[p])])

eigentransform(all_mus, old_key, new_key, L_eigentransform) ==
  np_array1([p \in 1..3 |->
     LET mu == IF L_eigentransform
               THEN np_dot(left_eigenvectors_by_manifold[new_key],
                           np_array2(np_dot(all_mus[p],
                                            right_eigenvectors_by_manifold[old_key])))
               ELSE all_mus[p]
     IN  np_real_if_close(np_array2(mu))])

make_mu_by_manifold_ket(old_manifold, change, H_eigentransform, L_eigentransform) ==
  LET i == old_manifold[1]
      j == old_manifold[2]
      i2 == i + change
  IN  IF i2 >= 0 /\ i2 <= maximum_manifold
      THEN LET old_key == ManifoldKey(i, j)
               new_key == ManifoldKey(i2, j)
           IN  [key |-> old_key \o "_to_" \o new_key,
                mu |-> mu_3d(eigentransform(
                         make_mu_by_manifold_ket_site(i, j, i2, H_eigentransform),
                         old_key, new_key, L_eigentransform))]
      ELSE [key |-> None, mu |-> None]

make_mu_by_manifold_bra(old_manifold, change, H_eigentransform, L_eigentransform) ==
  LET i == old_manifold[1]
      j == old_manifold[2]
      j2 == j + change
  IN  IF j2 >= 0 /\ j2 <= maximum_manifold
      THEN LET old_key == ManifoldKey(i, j)
               new_key == ManifoldKey(i, j2)
           IN  [key |-> old_key \o "_to_" \o new_key,
                mu |-> mu_3d(eigentransform(
                         make_mu_by_manifold_bra_site(i, j, j2, H_eigentransform),
                         old_key, new_key, L_eigentransform))]
      ELSE [key |-> None, mu |-> None]

\* |z|^2
np_abs2(z) == Norm(z[1] * z[1] + z[2] * z[2], 0, z[3] * z[3])

\* np.round(s, 12) for s >= 0 given in units of 10^-14, in units of 10^-12:
\* the nearest integer to s / 100, a tie going to the even one
np_round_12(s) ==
  LET den == 100 * s[3]
      q == s[1] \div den
      twice == 2 * (s[1] % den)
  IN  IF twice < den THEN q
      ELSE IF twice > den THEN q + 1
      ELSE IF q % 2 = 0 THEN q ELSE q + 1

\* bool of a number
np_bool(x) == x # 0

\* mask of a tensor without the rounding
boolean_mu_unrounded(mu) ==
  [a \in 1..Rows(mu) |-> [b \in 1..Cols(mu) |->
     SumUpTo([p \in 1..3 |-> np_abs2(mu[a][b][p])], 3) # Zero]]

\* boolean_mu[:,:] = np.round(np.sum(np.abs(mu)**2, axis=-1), 12)
boolean_mu_of(mu) ==
  [a \in 1..Rows(mu) |-> [b \in 1..Cols(mu) |->
     np_bool(np_round_12(SumUpTo([p \in 1..3 |-> np_abs2(mu[a][b][p])], 3)))]]

\* mu * boolean_mu[:,:,np.newaxis]
prune(mu, boolean_mu) ==
  [a \in 1..Rows(mu) |-> [b \in 1..Cols(mu) |->
     np_array1([p \in 1..3 |->
       CMul(mu[a][b][p], IF boolean_mu[a][b] THEN One ELSE Zero)])]]

\* self.boolean_mu_by_manifold[key] = boolean_mu; self.mu_by_manifold[key] = mu
\* (d holds, under each key, the entries of the two dictionaries)
store_mu_by_manifold(d, key, mu, boolean_mu) ==
  DictSet(d, key, [boolean_mu_by_manifold |-> boolean_mu,
                   mu_by_manifold |-> np_array2(prune(mu, boolean_mu))])

\* the body of append_mu_by_manifold once f has returned r = (key, mu)
append_returned_mu(d, r) ==
  IF r.key = None THEN d
  ELSE store_mu_by_manifold(d, r.key, r.mu, np_array2(boolean_mu_of(r.mu)))

\* the two dictionaries after one call of append_mu_by_manifold
append_mu_by_manifold(d, old_manifold, change, ket_flag, H_eigentransform, L_eigentransform) ==
  append_returned_mu(d,
    IF ket_flag
    THEN make_mu_by_manifold_ket(old_manifold, change, H_eigentransform, L_eigentransform)
    ELSE make_mu_by_manifold_bra(old_manifold, change, H_eigentransform, L_eigentransform))

\* the first k calls of append_mu_by_manifold made by set_mu_by_manifold:
\* four for each (i, j), in the order of the two nested loops
RECURSIVE set_mu_by_manifold_calls(_, _, _)
set_mu_by_manifold_calls(k, H_eigentransform, L_eigentransform) ==
  IF k = 0 THEN <<>>
  ELSE LET cell == (k - 1) \div 4
           which == (k - 1) % 4
           manifold == <<cell \div (maximum_manifold + 1), cell % (maximum_manifold + 1)>>
       IN  append_mu_by_manifold(
             set_mu_by_manifold_calls(k - 1, H_eigentransform, L_eigentransform),
             manifold, IF which \in {0, 2} THEN 1 ELSE -1, which < 2,
             H_eigentransform, L_eigentransform)

set_mu_by_manifold(H_eigentransform, L_eigentransform) ==
  set_mu_by_manifold_calls(4 * (maximum_manifold + 1) * (maximum_manifold + 1),
                           H_eigentransform, L_eigentransform)

\* --- systems the dipole stage is run on
MuSites == {1, 2}

\* dipole vectors of a site, in units of 10^-7
Strong == <<Real(100), Zero, Zero>>
Medium == <<Real(6), Real(6), Zero>>
Weak == <<Real(3), Real(6), Zero>>
Dark == <<Zero, Zero, Zero>>

\* the dipoles argument for n sites
DipoleLists(n) ==
  IF n = 1 THEN {<<Strong>>, <<Medium>>, <<Weak>>, <<Dark>>}
  ELSE {<<Strong, Weak>>, <<Weak, Medium>>, <<Medium, Dark>>, <<Weak, Weak>>}

\* an invertible matrix of the dimension of a block and its inverse
RECURSIVE Shear(_)
Shear(d) ==
  IF d = 1 THEN << <<One>> >>
  ELSE np_array2(np_kron(<< <<One, One>>, <<Zero, One>> >>, Shear(d \div 2)))

RECURSIVE ShearInverse(_)
ShearInverse(d) ==
  IF d = 1 THEN << <<One>> >>
  ELSE np_array2(np_kron(<< <<One, Real(-1)>>, <<Zero, One>> >>, ShearInverse(d \div 2)))

ManifoldKeys(m) == {ManifoldKey(i, j) : i \in 0..m, j \in 0..m}

\* right eigenvectors of every block, different from block to block, and
\* their inverses as left eigenvectors; sizes are those of occ_num
EigenvectorsByManifold(occ_num, m, sheared, side) ==
  [key \in ManifoldKeys(m) |->
     LET ij == CHOOSE ij \in (0..m) \X (0..m) : ManifoldKey(ij[1], ij[2]) = key
         size == Len(mask_of(occ_num, ij[1])) * Len(mask_of(occ_num, ij[2]))
         c == Real(1 + ij[1] + 2 * ij[2])
     IN  IF ~sheared THEN np_array2(np_eye(size))
         ELSE IF side = "right" THEN np_array2(MatScale(c, Shear(size)))
         ELSE np_array2(MatScale(CDivReal(One, c), ShearInverse(size)))]

\* self.H_eigenvectors as set_H_eigsystem_by_manifold leaves it: for each
\* manifold an orthogonal matrix whose columns have their largest component
\* positive, the identity for uncoupled sites or a rotation for a manifold
\* of two coupled states
Rotation == << <<Frac(3, 5), Frac(4, 5)>>, <<Frac(4, 5), Frac(-3, 5)>> >>

HEigenvectorsByManifold(occ_num, m, mixed) ==
  [k \in 1..(m + 1) |->
     LET size == Len(mask_of(occ_num, k - 1))
     IN  IF mixed /\ size = 2 THEN Rotation ELSE np_array2(np_eye(size))]

InitMu ==
  /\ kT = Zero
  /\ eigenvalues = <<>>
  /\ eigenvectors = <<>>
  /\ eigenvalues_by_manifold = <<>>
  /\ warnings = 0
  /\ written = <<>>
  /\ L_by_manifold = <<>>
  /\ energies = <<>>
  /\ couplings = <<>>
  /\ up_list = <<>>
  /\ down_list = <<>>
  /\ occupied_list = <<>>
  /\ empty_list = <<>>
  /\ exchange_list = <<>>
  /\ sz_list = <<>>
  /\ electronic_hamiltonian = <<>>
  /\ optical_dephasing_gamma = Zero
  /\ optical_decoherence_gamma = Zero
  /\ site_to_site_dephasing_gamma = Zero
  /\ site_to_site_decoherence_gamma = Zero
  /\ exciton_decoherence_gamma = Zero
  /\ exciton_exciton_dephasing_gamma = Zero
  /\ vibrational_gamma = Zero
  /\ manifolds_separable = TRUE
  /\ num_vibrations = 0
  /\ electronic_dissipation_instructions = <<>>
  /\ all_instructions = <<>>
  /\ ret = Returned(<<>>)
  /\ L = <<>>
  /\ rho = <<>>
  /\ drho = <<>>
  /\ mu_by_manifold = <<>>
  /\ boolean_mu_by_manifold = <<>>
  /\ UnsetVibrations
  /\ \E n \in MuSites, m \in 0..MaxManifold, fdb \in BOOLEAN, rk \in BOOLEAN :
       \E dipoles \in DipoleLists(n), sheared \in BOOLEAN, mixed \in BOOLEAN :
         \E occ_num \in {make_electronic_total_occupation_number(n)} :
           \* self.maximum_manifold = min(maximum_manifold, num_sites)
           \E mm \in {IF m < n THEN m ELSE n} :
             /\ num_sites = n
             /\ electronic_total_occupation_number = occ_num
             /\ call = Call("OpenPolymerVibrations", <<fdb, rk, mm>>)
             /\ vibronic_mu_dict = make_condon_mu_dict(n, dipoles)
             /\ H_eigenvectors = HEigenvectorsByManifold(occ_num, mm, mixed)
             /\ IF rk
                THEN /\ pc = "L_by_manifold"
                     /\ ~sheared
                     /\ right_eigenvectors_by_manifold = <<>>
                     /\ left_eigenvectors_by_manifold = <<>>
                ELSE /\ pc = "eigensystem_by_manifold"
                     /\ right_eigenvectors_by_manifold =
                          EigenvectorsByManifold(occ_num, mm, sheared, "right")
                     /\ left_eigenvectors_by_manifold =
                          EigenvectorsByManifold(occ_num, mm, sheared, "left")

\* if for_RK: set_mu_by_manifold(H_eigentransform, L_eigentransform=False);
\* else, after set_eigensystem_by_manifold: set_mu_by_manifold(H_eigentransform)
Call_set_mu_by_manifold ==
  /\ pc = IF for_RK THEN "L_by_manifold" ELSE "eigensystem_by_manifold"
  /\ \E d \in {set_mu_by_manifold(force_detailed_balance, ~for_RK)} :
       /\ mu_by_manifold' = [key \in DOMAIN d |-> d[key].mu_by_manifold]
       /\ boolean_mu_by_manifold' = [key \in DOMAIN d |-> d[key].boolean_mu_by_manifold]
  /\ pc' = "mu_by_manifold"
  /\ UNCHANGED <<operator_fields, rate_fields, num_vibrations,
                 electronic_dissipation_instructions, all_instructions,
                 call, ret, liouville_fields, written, L_by_manifold, eigen_fields,
                 vibronic_mu_dict, H_eigenvectors, vibration_fields>>

NextMu == Call_set_mu_by_manifold

SpecMu == InitMu /\ [][NextMu]_vars

\* ------------------------------------------------------------------------
\* OpenPolymerVibrations.__init__ from set_vibrations to set_L_by_manifold:
\* the vibrational space, the total Hamiltonian, the manifold masks and the
\* Liouvillian blocks, with numeric operators
\* ------------------------------------------------------------------------
np_arange(N) == [k \in 1..N |-> k - 1]
np_ones(N) == [k \in 1..N |-> 1]

RECURSIVE VecKronUpTo(_, _)
VecKronUpTo(list, k) ==
  IF k = 1 THEN list[1] ELSE VecKron(VecKronUpTo(list, k - 1), list[k])

vibrational_vector_of_ones_kron(N, nv, position, item) ==
  LET ones_list == ListInsert([i \in 1..(nv - 1) |-> np_ones(N)], position, item)
  IN  VecKronUpTo(ones_list, Len(ones_list))

\* occ_num after the loop has added the modes 1..i
RECURSIVE VibOccNumUpTo(_, _, _)
VibOccNumUpTo(N, nv, i) ==
  LET term == vibrational_vector_of_ones_kron(N, nv, i, np_arange(N))
  IN  IF i = 0 THEN term
      ELSE LET acc == VibOccNumUpTo(N, nv, i - 1)
           IN  [k \in 1..Len(acc) |-> acc[k] + term[k]]

\* the loop runs over range(1, nv): nothing is added for nv = 0 or 1
vibrational_total_occupation_number(N, nv) ==
  VibOccNumUpTo(N, nv, IF nv < 1 THEN 0 ELSE nv - 1)

\* np.where(occ_num < N)[0]
RECURSIVE WhereLessUpTo(_, _, _)
WhereLessUpTo(vec, bound, k) ==
  IF k = 0 THEN <<>>
  ELSE IF vec[k] < bound THEN Append(WhereLessUpTo(vec, bound, k - 1), k - 1)
       ELSE WhereLessUpTo(vec, bound, k - 1)

RECURSIVE IntPow(_, _)
IntPow(b, e) == IF e = 0 THEN 1 ELSE b * IntPow(b, e - 1)

\* the mask every index of the product basis passes
full_vibrational_mask(N, nv) == np_arange(IntPow(N, nv))

\* set_vibrations: the two branches that assign self.vibrational_mask
make_vibrational_mask(N, nv, mask_by_occupation_num) ==
  IF mask_by_occupation_num
  THEN LET occ_num == vibrational_total_occupation_number(N, nv)
       IN  WhereLessUpTo(occ_num, N, Len(occ_num))
  ELSE full_vibrational_mask(N, nv)

\* O[inds, :][:, inds]
mask_vibrational_space(O, inds) ==
  [a \in 1..Len(inds) |-> [b \in 1..Len(inds) |-> O[inds[a] + 1][inds[b] + 1]]]

vibration_identity_kron(N, nv, position, item) ==
  np_array2(recursive_kron(ListInsert([n \in 1..(nv - 1) |-> np_eye(N)], position, item)))

\* variant that returns the operators of the product space unmasked
kron_up_vibrations_unmasked(N, nv, mask_by_occupation_num, inds, vibrations_list) ==
  IF nv = 1 THEN vibrations_list
  ELSE [i \in 1..nv |-> vibration_identity_kron(N, nv, i - 1, vibrations_list[i])]

kron_up_vibrations(N, nv, mask_by_occupation_num, inds, vibrations_list) ==
  IF nv = 1 THEN vibrations_list
  ELSE [i \in 1..nv |->
          LET new_vibration == vibration_identity_kron(N, nv, i - 1, vibrations_list[i])
          IN  IF mask_by_occupation_num
              THEN np_array2(mask_vibrational_space(new_vibration, inds))
              ELSE new_vibration]

\* AnharmonicDisplaced is imported from another module: 0.5 * w * aho.ham
\* of mode k (0-based) is taken as an N x N real matrix whose entries are
\* nonzero and all different, so that every entry tells its row, its
\* column, its mode and the electronic occupation it was built for
construct_vibrational_hamiltonian(N, k, electronic_occupation) ==
  [r \in 1..N |-> [c \in 1..N |->
     Real(100 * (k + 1) + 50 * electronic_occupation + N * (r - 1) + c)]]

\* aho.create() - np.eye(N) * d / np.sqrt(2), taken in the same way
construct_vibrational_ladder_operator(N, k, electronic_occupation) ==
  [r \in 1..N |-> [c \in 1..N |->
     Real(1000 + 100 * (k + 1) + 50 * electronic_occupation + N * (r - 1) + c)]]

\* np.where((occ >= min_occ_num) & (occ <= max_occ_num))[0]
RECURSIVE WhereBetweenUpTo(_, _, _, _)
WhereBetweenUpTo(vec, lo, hi, k) ==
  IF k = 0 THEN <<>>
  ELSE IF vec[k] >= lo /\ vec[k] <= hi
       THEN Append(WhereBetweenUpTo(vec, lo, hi, k - 1), k - 1)
       ELSE WhereBetweenUpTo(vec, lo, hi, k - 1)

electronic_subspace_mask(min_occ_num, max_occ_num) ==
  WhereBetweenUpTo(electronic_total_occupation_number, min_occ_num, max_occ_num,
                   Len(electronic_total_occupation_number))

extract_electronic_subspace(O, min_occ_num, max_occ_num) ==
  LET manifold_inds == electronic_subspace_mask(min_occ_num, max_occ_num)
  IN  [a \in 1..Len(manifold_inds) |-> [b \in 1..Len(manifold_inds) |->
         O[manifold_inds[a] + 1][manifold_inds[b] + 1]]]

\* the electronic factor of a vibronic operator: the full space when the
\* manifolds are separable, the occupations 0..maximum_manifold otherwise
electronic_factor(O) ==
  IF manifolds_separable THEN O
  ELSE extract_electronic_subspace(O, 0, maximum_manifold)

\* params['vibrations'][k]['site_label'] and the other constructor inputs
site_labels == call.args[4]
mask_by_occupation_num == call.args[5]

\* set_vibrations and set_vibrational_ladder_operators: np.kron(empty,
\* empty_vibrations[i]) and np.kron(occupied, occupied_vibrations[i])
vibronic_operator_list(site_operator_list, vibrations_list) ==
  [i \in 1..Len(vibrations_list) |->
     np_array2(np_kron(electronic_factor(site_operator_list[site_labels[i] + 1]),
                       vibrations_list[i]))]

\* add_vibrations
RECURSIVE add_vibrations_up_to(_, _, _, _)
add_vibrations_up_to(H, v0, v1, i) ==
  IF i = 0 THEN H
  ELSE MatAdd(MatAdd(add_vibrations_up_to(H, v0, v1, i - 1), v0[i]), v1[i])

\* vibronic_manifold_mask: the indices of the full electronic occupation
\* vector, each repeated once per vibrational state
vibronic_occupation_number ==
  VecKron(electronic_total_occupation_number, np_ones(Len(vibrational_mask)))

vibronic_manifold_mask(manifold_num) ==
  mask_of(vibronic_occupation_number, manifold_num)

\* an index of inds outside an axis of length size: numpy raises IndexError
IndexOutOfBounds(inds, size) == \E a \in 1..Len(inds) : inds[a] >= size

\* O[manifold_inds, :][:, manifold_inds] with the vibronic mask
extract_vibronic_manifold(O, manifold_num) ==
  LET manifold_inds == vibronic_manifold_mask(manifold_num)
  IN  [a \in 1..Len(manifold_inds) |-> [b \in 1..Len(manifold_inds) |->
         O[manifold_inds[a] + 1][manifold_inds[b] + 1]]]

\* np.linalg.eigh is LAPACK's: the eigenvectors of a manifold are taken as
\* an orthogonal matrix whose columns have their largest component
\* positive, the identity or the exchange matrix
exchange_matrix(d) ==
  [a \in 1..d |-> [b \in 1..d |-> IF a + b = d + 1 THEN One ELSE Zero]]

\* optical_decoherence_instructions on matrices: the lowering operator
\* up_list[n].T at rate gamma * bg, the raising one at gamma * bn unless
\* bn is close to 0
optical_decoherence_instruction_pairs(kT_, en, ups, gamma) ==
  IF gamma = Zero THEN <<>>
  ELSE Concat([n \in 1..Len(en) |->
                 LET bf == boltzmann_factors(kT_, Zero, en[n]).value
                 IN  make_Lindblad_instructions(CMul(gamma, bf[1]), Transpose(ups[n]))
                     \o (IF np_isclose_zero(bf[2]) THEN <<>>
                         ELSE make_Lindblad_instructions(CMul(gamma, bf[2]), ups[n]))],
              Len(en))

\* --- the systems the vibronic stages are run on
VibronicSites == {1, 2, 3}
TruncationSizes == {1, 2}
VibrationCounts == {0, 1, 2}

\* params['vibrations']: mode k sits on site k mod n
SiteLabelLists(n, nv) == {[k \in 1..nv |-> (k - 1) % n]}

\* the object after set_electronic_dissipation_instructions, with sites of
\* energies 1, 2, ... and unit couplings
InitVibrations ==
  /\ pc = "electronic_dissipation_instructions"
  /\ kT = Zero
  /\ UnsetEigensystem
  /\ UnsetMu
  /\ written = <<>>
  /\ L_by_manifold = <<>>
  /\ optical_dephasing_gamma = Frac(1, 10)
  /\ site_to_site_dephasing_gamma = Zero
  /\ site_to_site_decoherence_gamma = Zero
  /\ exciton_decoherence_gamma = Zero
  /\ exciton_exciton_dephasing_gamma = Zero
  /\ vibrational_gamma = Frac(1, 10)
  /\ num_vibrations = 0
  /\ all_instructions = <<>>
  /\ ret = Returned(<<>>)
  /\ L = <<>>
  /\ rho = <<>>
  /\ drho = <<>>
  /\ occupation_num_mask = TRUE
  /\ vibrational_mask = <<>>
  /\ vibrational_identity = <<>>
  /\ empty_vibrations = <<>>
  /\ occupied_vibrations = <<>>
  /\ empty_ups = <<>>
  /\ occupied_ups = <<>>
  /\ total_hamiltonian = <<>>
  /\ \E n \in VibronicSites, N \in TruncationSizes, nv \in VibrationCounts :
       \* three sites are run with at most one mode and without
       \* force_detailed_balance
       /\ n < 3 \/ nv < 2
       /\ \E labels \in SiteLabelLists(n, nv), mask \in BOOLEAN, m \in 0..n :
            \E fdb \in {b \in BOOLEAN : n < 3 \/ ~b}, gamma \in {Zero, Frac(1, 10)} :
              LET occs == make_single_operator_list(n, occupied).value
                  exchs == make_multi_operator_list(n, <<up, down>>).value
                  site_energies == [k \in 1..n |-> Real(k)]
                  site_couplings == [k \in 1..NumPairs(n) |-> One]
              IN  /\ num_sites = n
                  /\ energies = site_energies
                  /\ couplings = site_couplings
                  /\ up_list = make_single_operator_list(n, up).value
                  /\ down_list = make_single_operator_list(n, down).value
                  /\ occupied_list = occs
                  /\ empty_list = make_single_operator_list(n, empty).value
                  /\ exchange_list = exchs
                  /\ sz_list = make_single_operator_list(n, sz).value
                  /\ electronic_hamiltonian =
                       np_array2(make_electronic_hamiltonian(site_energies, site_couplings,
                                                             occs, exchs))
                  /\ electronic_total_occupation_number =
                       make_electronic_total_occupation_number(n)
                  /\ optical_decoherence_gamma = gamma
                  /\ manifolds_separable = (gamma = Zero)
                  /\ truncation_size = N
                  \* self.maximum_manifold = min(params['maximum_manifold'], num_sites)
                  /\ call = Call("OpenPolymerVibrations", <<fdb, FALSE, m, labels, mask>>)
                  /\ electronic_dissipation_instructions =
                       make_Lindblad_instructions(Frac(1, 10),
                           optical_dephasing_operator(make_single_operator_list(n, sz).value))
                       \o optical_decoherence_instruction_pairs(
                            Zero, site_energies, make_single_operator_list(n, up).value, gamma)

UNCHANGED_by_vibronic_stage ==
  UNCHANGED <<operator_fields, rate_fields, electronic_dissipation_instructions,
              call, liouville_fields, written, eigen_fields,
              vibronic_mu_dict, mu_by_manifold, boolean_mu_by_manifold,
              truncation_size>>

\* self.occupation_num_mask = mask_by_occupation_num; set_vibrations();
\* set_vibrational_ladder_operators()
Stage_set_vibrations ==
  /\ pc = "electronic_dissipation_instructions"
  /\ \E N \in {truncation_size}, nv \in {Len(site_labels)} :
       \E inds \in {make_vibrational_mask(N, nv, mask_by_occupation_num)} :
         /\ occupation_num_mask' = mask_by_occupation_num
         /\ num_vibrations' = nv
         /\ vibrational_mask' = inds
         /\ vibrational_identity' = np_array2(np_eye(Len(inds)))
         /\ empty_vibrations' =
              vibronic_operator_list(empty_list,
                kron_up_vibrations(N, nv, mask_by_occupation_num, inds,
                  [k \in 1..nv |-> construct_vibrational_hamiltonian(N, k - 1, 0)]))
         /\ occupied_vibrations' =
              vibronic_operator_list(occupied_list,
                kron_up_vibrations(N, nv, mask_by_occupation_num, inds,
                  [k \in 1..nv |-> construct_vibrational_hamiltonian(N, k - 1, 1)]))
         /\ empty_ups' =
              vibronic_operator_list(empty_list,
                kron_up_vibrations(N, nv, mask_by_occupation_num, inds,
                  [k \in 1..nv |-> construct_vibrational_ladder_operator(N, k - 1, 0)]))
         /\ occupied_ups' =
              vibronic_operator_list(occupied_list,
                kron_up_vibrations(N, nv, mask_by_occupation_num, inds,
                  [k \in 1..nv |-> construct_vibrational_ladder_operator(N, k - 1, 1)]))
  /\ pc' = "vibrations"
  /\ UNCHANGED_by_vibronic_stage
  /\ UNCHANGED <<all_instructions, ret, L_by_manifold, H_eigenvectors, total_hamiltonian>>

\* self.total_hamiltonian = np.kron(e_ham, self.vibrational_identity);
\* add_vibrations()
Stage_set_total_hamiltonian ==
  /\ pc = "vibrations"
  /\ total_hamiltonian' =
       np_array2(add_vibrations_up_to(
         np_kron(electronic_factor(electronic_hamiltonian), vibrational_identity),
         empty_vibrations, occupied_vibrations, Len(empty_vibrations)))
  /\ pc' = "total_hamiltonian"
  /\ UNCHANGED_by_vibronic_stage
  /\ UNCHANGED <<all_instructions, ret, L_by_manifold, H_eigenvectors, num_vibrations,
                 occupation_num_mask, vibrational_mask, vibrational_identity,
                 empty_vibrations, occupied_vibrations, empty_ups, occupied_ups>>

\* set_H_eigsystem_by_manifold: extract_vibronic_manifold of every manifold
\* 0..maximum_manifold, in order, then np.linalg.eigh
Stage_set_H_eigsystem_by_manifold ==
  /\ pc = "total_hamiltonian"
  /\ IF \E i \in 0..maximum_manifold :
          IndexOutOfBounds(vibronic_manifold_mask(i), Rows(total_hamiltonian))
     THEN /\ ret' = Raised("IndexError")
          /\ pc' = "raised"
          /\ H_eigenvectors' = H_eigenvectors
     ELSE /\ ret' = ret
          /\ pc' = "H_eigsystem"
          /\ \E exchanged \in BOOLEAN :
               H_eigenvectors' =
                 [k \in 1..(maximum_manifold + 1) |->
                    LET size == Len(vibronic_manifold_mask(k - 1))
                    IN  IF exchanged THEN exchange_matrix(size) ELSE np_array2(np_eye(size))]
  /\ UNCHANGED_by_vibronic_stage
  /\ UNCHANGED <<all_instructions, L_by_manifold, num_vibrations, total_hamiltonian,
                 occupation_num_mask, vibrational_mask, vibrational_identity,
                 empty_vibrations, occupied_vibrations, empty_ups, occupied_ups>>

\* convert_electronic_instructions_to_full_instructions on matrix pairs
convert_electronic_instruction_pairs(inst_list) ==
  [k \in 1..Len(inst_list) |->
     <<np_array2(np_kron(electronic_factor(inst_list[k][1]), vibrational_identity)),
       np_array2(np_kron(electronic_factor(inst_list[k][2]), vibrational_identity))>>]

\* vibrational_dissipation_instructions at kT == 0, where N = 0 and only
\* the instructions of rate gamma * (N + 1) are made
vibrational_dissipation_instruction_pairs ==
  Concat([k \in 1..num_vibrations |->
            make_Lindblad_instructions(vibrational_gamma,
              np_array2(MatAdd(Transpose(occupied_ups[k]), Transpose(empty_ups[k]))))],
         num_vibrations)

\* the two branches of __init__ that assign self.all_instructions
Stage_all_instruction_pairs ==
  /\ pc = "H_eigsystem"
  /\ \E commutator \in {make_commutator_instructions(
                          np_array2(MatScale(MinusI, total_hamiltonian)))} :
       all_instructions' =
         IF force_detailed_balance THEN commutator
         ELSE convert_electronic_instruction_pairs(electronic_dissipation_instructions)
              \o commutator
              \o vibrational_dissipation_instruction_pairs
  /\ pc' = "all_instructions"
  /\ UNCHANGED_by_vibronic_stage
  /\ UNCHANGED <<ret, L_by_manifold, H_eigenvectors, num_vibrations, total_hamiltonian,
                 occupation_num_mask, vibrational_mask, vibrational_identity,
                 empty_vibrations, occupied_vibrations, empty_ups, occupied_ups>>

\* V.T.dot(O.dot(V)); V is np.eye(size) unless H_eigentransform, and the
\* products with it return O
H_transform(O, manifold_num, H_eigentransform) ==
  IF H_eigentransform
  THEN LET V == H_eigenvectors[manifold_num + 1]
       IN  np_array2(np_dot(Transpose(V), np_dot(O, V)))
  ELSE np_array2(O)

\* variant that restricts both operands to the ket manifold
extract_coherence_instructions_ket_only(inst_list, manifold1, manifold2, H_eigentransform) ==
  [k \in 1..Len(inst_list) |->
     <<H_transform(extract_vibronic_manifold(inst_list[k][1], manifold1),
                   manifold1, H_eigentransform),
       H_transform(extract_vibronic_manifold(inst_list[k][2], manifold1),
                   manifold1, H_eigentransform)>>]

\* trim is None in every call of the constructor: [:trim, :trim] keeps all
extract_coherence_instructions_from_full_instructions(inst_list, manifold1, manifold2, H_eigentransform) ==
  [k \in 1..Len(inst_list) |->
     <<H_transform(extract_vibronic_manifold(inst_list[k][1], manifold1),
                   manifold1, H_eigentransform),
       H_transform(extract_vibronic_manifold(inst_list[k][2], manifold2),
                   manifold2, H_eigentransform)>>]

\* the two nested loops of set_L_by_manifold after k assignments;
\* add_eigenstate_decoherence_effects is False in both calls of __init__
RECURSIVE set_L_by_manifold_up_to(_, _)
set_L_by_manifold_up_to(H_eigentransform, k) ==
  IF k = 0 THEN <<>>
  ELSE LET i == (k - 1) \div (maximum_manifold + 1)
           j == (k - 1) % (maximum_manifold + 1)
           inst == extract_coherence_instructions_from_full_instructions(
                     all_instructions, i, j, H_eigentransform)
       IN  DictSet(set_L_by_manifold_up_to(H_eigentransform, k - 1),
                   ManifoldKey(i, j), np_array2(make_Liouvillian(inst)))

set_L_by_manifold(H_eigentransform) ==
  set_L_by_manifold_up_to(H_eigentransform,
                          (maximum_manifold + 1) * (maximum_manifold + 1))

\* if force_detailed_balance: set_L_by_manifold(H_eigentransform=True, ...)
\* else, if self.manifolds_separable: set_L_by_manifold(H_eigentransform=False)
Call_set_L_by_manifold ==
  /\ pc = "all_instructions"
  /\ force_detailed_balance \/ manifolds_separable
  /\ L_by_manifold' = set_L_by_manifold(force_detailed_balance)
  /\ pc' = "L_by_manifold"
  /\ UNCHANGED_by_vibronic_stage
  /\ UNCHANGED <<all_instructions, ret, H_eigenvectors, num_vibrations, total_hamiltonian,
                 occupation_num_mask, vibrational_mask, vibrational_identity,
                 empty_vibrations, occupied_vibrations, empty_ups, occupied_ups>>

NextVibrations ==
  \/ Stage_set_vibrations
  \/ Stage_set_total_hamiltonian
  \/ Stage_set_H_eigsystem_by_manifold
  \/ Stage_all_instruction_pairs
  \/ Call_set_L_by_manifold

SpecVibrations == InitVibrations /\ [][NextVibrations]_vars

\* ------------------------------------------------------------------------
\* The keys of the per-manifold dictionaries: the two nested loops of
\* set_L_by_manifold, one assignment at a time, for systems of up to
\* MaxKeyManifold sites.  The operators of systems of that size are not
\* built: a block is named by the pair of manifolds it is made from, and
\* written lists the pairs assigned so far
\* ------------------------------------------------------------------------
MaxKeyManifold == 11

InitKeys ==
  /\ pc = "set_L_by_manifold"
  /\ kT = Zero
  /\ UnsetEigensystem
  /\ UnsetMu
  /\ UnsetVibrations
  /\ energies = <<>>
  /\ couplings = <<>>
  /\ up_list = <<>>
  /\ down_list = <<>>
  /\ occupied_list = <<>>
  /\ empty_list = <<>>
  /\ exchange_list = <<>>
  /\ sz_list = <<>>
  /\ electronic_hamiltonian = <<>>
  /\ electronic_total_occupation_number = <<>>
  /\ optical_dephasing_gamma = Zero
  /\ optical_decoherence_gamma = Zero
  /\ site_to_site_dephasing_gamma = Zero
  /\ site_to_site_decoherence_gamma = Zero
  /\ exciton_decoherence_gamma = Zero
  /\ exciton_exciton_dephasing_gamma = Zero
  /\ vibrational_gamma = Zero
  /\ manifolds_separable = TRUE
  /\ num_vibrations = 0
  /\ electronic_dissipation_instructions = <<>>
  /\ all_instructions = <<>>
  /\ ret = Returned(<<>>)
  /\ L = <<>>
  /\ rho = <<>>
  /\ drho = <<>>
  /\ written = <<>>
  \* self.L_by_manifold = dict()
  /\ L_by_manifold = <<>>
  /\ \E m \in 0..MaxKeyManifold :
       \* self.maximum_manifold = min(maximum_manifold, num_sites)
       /\ num_sites = m
       /\ call = Call("set_L_by_manifold", <<FALSE, FALSE, m>>)

\* key = str(i) + str(j); self.L_by_manifold[key] = make_Liouvillian(inst)
Loop_set_L_by_manifold ==
  /\ pc = "set_L_by_manifold"
  /\ LET done == Len(written)
         i == done \div (maximum_manifold + 1)
         j == done % (maximum_manifold + 1)
     IN  /\ L_by_manifold' = DictSet(L_by_manifold, ManifoldKey(i, j), [ket |-> i, bra |-> j])
         /\ written' = Append(written, <<i, j>>)
         /\ pc' = IF done + 1 = (maximum_manifold + 1) * (maximum_manifold + 1)
                  THEN "L_by_manifold" ELSE "set_L_by_manifold"
  /\ UNCHANGED <<operator_fields, rate_fields, num_vibrations,
                 electronic_dissipation_instructions, all_instructions,
                 call, ret, liouville_fields, eigen_fields, mu_fields, vibration_fields>>

NextKeys == Loop_set_L_by_manifold

SpecKeys == InitKeys /\ [][NextKeys]_vars

\* ------------------------------------------------------------------------
\* The thermally weighted decoherence builders on matrices
\* ------------------------------------------------------------------------
\* site_to_site_decoherence_instructions: exchange_list[i] at rate
\* gamma * bn, its transpose at gamma * bm, for the i-th pair (n, m)
site_to_site_decoherence_instruction_pairs(kT_, en, exch_list, gamma) ==
  LET nm == combinations(Len(en), 2)
  IN  Concat([i \in 1..Len(nm) |->
                LET bf == boltzmann_factors(kT_, en[nm[i][1] + 1], en[nm[i][2] + 1]).value
                    O == exch_list[i]
                IN  make_Lindblad_instructions(CMul(gamma, bf[1]), O)
                    \o make_Lindblad_instructions(CMul(gamma, bf[2]), Transpose(O))],
             Len(nm))

\* extract_coherence(O, manifold1, manifold2): O[manifold1_inds, :] and then
\* [:, manifold2_inds]
extract_coherence(O, manifold1, manifold2) ==
  LET inds1 == electronic_manifold_mask(manifold1)
      inds2 == electronic_manifold_mask(manifold2)
  IN  [a \in 1..Len(inds1) |-> [b \in 1..Len(inds2) |-> O[inds1[a] + 1][inds2[b] + 1]]]

\* extract_manifold(O, manifold_num)
extract_manifold(O, manifold_num) == extract_coherence(O, manifold_num, manifold_num)

\* manifold_to_full(O, manifold_num): zeros of the size of the full space
\* with O in the rows and columns of the manifold
manifold_to_full_matrix(O, manifold_num) ==
  LET inds == electronic_manifold_mask(manifold_num)
      dim == Rows(electronic_hamiltonian)
      pos(r) == CHOOSE a \in 1..Len(inds) : inds[a] = r - 1
  IN  [r \in 1..dim |-> [c \in 1..dim |->
         IF (\E a \in 1..Len(inds) : inds[a] = r - 1)
              /\ (\E b \in 1..Len(inds) : inds[b] = c - 1)
         THEN O[pos(r)][pos(c)] ELSE Zero]]

\* make_manifold_eigensystem for uncoupled sites, where h is diagonal:
\* np.linalg.eigh followed by argsort gives the diagonal in ascending order
\* and, as eigenvectors, the basis vectors in that order, each with the sign
\* LAPACK gives it (signs[k] is 1 or -1)
make_manifold_eigensystem(manifold_num, signs) ==
  LET h == extract_manifold(electronic_hamiltonian, manifold_num)
      d == [k \in 1..Rows(h) |-> h[k][k]]
      sort_inds == argsort(d)
  IN  [e |-> [k \in 1..Len(d) |-> d[sort_inds[k]]],
       v |-> [r \in 1..Len(d) |-> [k \in 1..Len(d) |->
                IF r = sort_inds[k] THEN signs[k] ELSE Zero]]]

\* exchange[m, n] = 1 for 0-based m, n
single_entry(size, m, n) ==
  [r \in 1..size |-> [c \in 1..size |-> IF r = m + 1 /\ c = n + 1 THEN One ELSE Zero]]

\* variant with the two factors exchanged
exciton_decoherence_instruction_pairs_swapped(kT_, e, v, gamma, manifold_num) ==
  LET mn == combinations(Len(e), 2)
  IN  Concat([i \in 1..Len(mn) |->
                LET bf == boltzmann_factors(kT_, e[mn[i][1] + 1], e[mn[i][2] + 1]).value
                    exchange == single_entry(Len(e), mn[i][1], mn[i][2])
                    O == np_array2(manifold_to_full_matrix(
                           np_dot(v, np_dot(exchange, Transpose(v))), manifold_num))
                IN  make_Lindblad_instructions(CMul(gamma, bf[2]), O)
                    \o make_Lindblad_instructions(CMul(gamma, bf[1]), Transpose(O))],
             Len(mn))

\* exciton_decoherence_instructions_by_manifold with full_space = True
exciton_decoherence_instruction_pairs(kT_, e, v, gamma, manifold_num) ==
  LET mn == combinations(Len(e), 2)
  IN  Concat([i \in 1..Len(mn) |->
                LET bf == boltzmann_factors(kT_, e[mn[i][1] + 1], e[mn[i][2] + 1]).value
                    exchange == single_entry(Len(e), mn[i][1], mn[i][2])
                    O == np_array2(manifold_to_full_matrix(
                           np_dot(v, np_dot(exchange, Transpose(v))), manifold_num))
                IN  make_Lindblad_instructions(CMul(gamma, bf[1]), O)
                    \o make_Lindblad_instructions(CMul(gamma, bf[2]), Transpose(O))],
             Len(mn))

\* all_eigenstate_decoherence_instructions_by_manifold for the rates and
\* the energies E of the manifold; the two loops visit the pairs (i, j),
\* j > i, in the order of itertools.combinations
all_eigenstate_decoherence_instruction_pairs(kT_, rates, E) ==
  LET ij == combinations(Len(E), 2)
  IN  Concat([k \in 1..Len(ij) |->
                LET i == ij[k][1] + 1
                    j == ij[k][2] + 1
                    O == single_entry(Len(E), i - 1, j - 1)
                    bf == boltzmann_factors(kT_, E[i], E[j]).value
                    down_ == CMul(bf[1], rates[i][j])
                    up_ == CMul(bf[2], rates[i][j])
                IN  make_Lindblad_instructions(down_, O)
                    \o (IF np_isclose_zero(up_) THEN <<>>
                        ELSE make_Lindblad_instructions(up_, Transpose(O)))],
             Len(ij))

\* --- the systems the builders are run on: one to three uncoupled sites of
\* energy 1 or 2 with every decoherence rate 1/10, at kT 0, 1 or 2
DecoherenceSites == {1, 2, 3}

ThermalSiteEnergies(n) == [1..n -> {Real(1), Real(2)}]

\* eigenvalues np.linalg.eigh returns for a manifold of H: ascending
AscendingEnergies ==
  {E \in UNION {[1..s -> {Zero, Real(1), Real(2)}] : s \in {2, 3}} :
     \A k \in 1..(Len(E) - 1) : ~RLess(E[k + 1], E[k])}

\* get_all_decoherence_rates: rates[i, j] is set for j > i only
RateMatrices(s) ==
  {[i \in 1..s |-> [j \in 1..s |-> IF j > i THEN Frac(i + j, 10) ELSE Zero]],
   [i \in 1..s |-> [j \in 1..s |-> IF j = i + 1 THEN One ELSE Zero]]}

InitDecoherence ==
  /\ pc = "polymer"
  /\ kT \in ConfiguredKT
  /\ UnsetEigensystem
  /\ UnsetMu
  /\ UnsetVibrations
  /\ written = <<>>
  /\ L_by_manifold = <<>>
  /\ optical_dephasing_gamma = Frac(1, 10)
  /\ optical_decoherence_gamma = Frac(1, 10)
  /\ site_to_site_dephasing_gamma = Zero
  /\ site_to_site_decoherence_gamma = Frac(1, 10)
  /\ exciton_decoherence_gamma = Frac(1, 10)
  /\ exciton_exciton_dephasing_gamma = Zero
  /\ vibrational_gamma = Zero
  /\ manifolds_separable = FALSE
  /\ num_vibrations = 0
  /\ electronic_dissipation_instructions = <<>>
  /\ all_instructions = <<>>
  /\ call = NoCall
  /\ ret = Returned(<<>>)
  /\ L = <<>>
  /\ rho = <<>>
  /\ drho = <<>>
  /\ \E n \in DecoherenceSites :
       \E site_energies \in ThermalSiteEnergies(n) :
         LET occs == make_single_operator_list(n, occupied).value
             exchs == make_multi_operator_list(n, <<up, down>>).value
             site_couplings == [k \in 1..NumPairs(n) |-> Zero]
         IN  /\ num_sites = n
             /\ energies = site_energies
             /\ couplings = site_couplings
             /\ up_list = make_single_operator_list(n, up).value
             /\ down_list = make_single_operator_list(n, down).value
             /\ occupied_list = occs
             /\ empty_list = make_single_operator_list(n, empty).value
             /\ exchange_list = exchs
             /\ sz_list = make_single_operator_list(n, sz).value
             /\ electronic_hamiltonian =
                  np_array2(make_electronic_hamiltonian(site_energies, site_couplings,
                                                        occs, exchs))
             /\ electronic_total_occupation_number =
                  make_electronic_total_occupation_number(n)

UNCHANGED_by_builder ==
  UNCHANGED <<operator_fields, rate_fields, num_vibrations,
              electronic_dissipation_instructions, all_instructions,
              liouville_fields, vibronic_fields>>

Call_optical_decoherence_instructions ==
  /\ pc = "polymer"
  /\ call' = Call("optical_decoherence_instructions", <<>>)
  /\ ret' = Returned(optical_decoherence_instruction_pairs(
                       kT, energies, up_list, optical_decoherence_gamma))
  /\ pc' = "called"
  /\ UNCHANGED_by_builder

Call_site_to_site_decoherence_instructions ==
  /\ pc = "polymer"
  /\ call' = Call("site_to_site_decoherence_instructions", <<>>)
  /\ ret' = Returned(site_to_site_decoherence_instruction_pairs(
                       kT, energies, exchange_list, site_to_site_decoherence_gamma))
  /\ pc' = "called"
  /\ UNCHANGED_by_builder

\* call.eig records the eigensystem of the manifold the builder read
Call_exciton_decoherence_instructions_by_manifold ==
  /\ pc = "polymer"
  /\ \E manifold_num \in 1..num_sites :
       \E signs \in [1..Len(electronic_manifold_mask(manifold_num)) -> {One, Real(-1)}] :
         \E eig \in {make_manifold_eigensystem(manifold_num, signs)} :
           /\ call' = [op |-> "exciton_decoherence_instructions_by_manifold",
                       args |-> <<manifold_num>>, eig |-> eig]
           /\ ret' = Returned(exciton_decoherence_instruction_pairs(
                                kT, eig.e, eig.v, exciton_decoherence_gamma, manifold_num))
  /\ pc' = "called"
  /\ UNCHANGED_by_builder

\* call.args: the rates and the eigenvalues H_eigenvalues[manifold_num]
\* the builder read
Call_all_eigenstate_decoherence_instructions_by_manifold ==
  /\ pc = "polymer"
  /\ \E E \in AscendingEnergies :
       \E rates \in RateMatrices(Len(E)) :
         /\ call' = Call("all_eigenstate_decoherence_instructions_by_manifold", <<rates, E>>)
         /\ ret' = Returned(all_eigenstate_decoherence_instruction_pairs(kT, rates, E))
  /\ pc' = "called"
  /\ UNCHANGED_by_builder

\* --- the constant optical dephasing rate of a coherence block
\* np.allclose(a, b) with the default rtol = 1e-5 and atol = 1e-8, on reals:
\* |a - b[k]| <= atol + rtol * |b[k]| for every k
np_allclose(a, b) ==
  \A k \in 1..Len(b) :
    LET diff == CSub(a, b[k])
    IN  Abs(diff[1]) * AtolInverse * b[k][3] <= diff[3] * (b[k][3] + 1000 * Abs(b[k][1]))

\* L.diagonal().reshape(shape) for the square shape of size n
diagonal_reshape(Lv, n) ==
  [r \in 1..n |-> [c \in 1..n |-> Lv[(r - 1) * n + c][(r - 1) * n + c]]]

\* variant reading the block of the ket manifold alone
make_eigenstate_optical_dephasing_Lindblad_ket_block(rates, ket_manifold_num, bra_manifold_num, ket_size, bra_size) ==
  LET opt_deph == Ravel(extract_coherence(rates, ket_manifold_num, ket_manifold_num))
  IN  IF np_allclose(opt_deph[1], opt_deph)
      THEN Returned(np_diag(Ravel([a \in 1..ket_size |-> [b \in 1..bra_size |->
                                     CMul(One, opt_deph[1])]])))
      ELSE Raised("Exception")

\* make_eigenstate_optical_dephasing_Lindblad, where rates is
\* optical_dephasing_Liouvillian().diagonal().reshape(electronic_hamiltonian.shape)
\* and ket_size, bra_size are the sizes of H_eigenvalues of the two manifolds
make_eigenstate_optical_dephasing_Lindblad(rates, ket_manifold_num, bra_manifold_num, ket_size, bra_size) ==
  LET opt_deph == Ravel(extract_coherence(rates, ket_manifold_num, bra_manifold_num))
  IN  IF np_allclose(opt_deph[1], opt_deph)
      THEN Returned(np_diag(Ravel([a \in 1..ket_size |-> [b \in 1..bra_size |->
                                     CMul(One, opt_deph[1])]])))
      ELSE Raised("Exception")

\* H_eigenvalues[k].size of the manifolds
EigenvalueCounts == {1, 2}

\* call.args: the two manifolds and the block of rates the function read
Call_make_eigenstate_optical_dephasing_Lindblad ==
  /\ pc = "polymer"
  /\ \E Lv \in {optical_dephasing_Liouvillian(sz_list, optical_dephasing_gamma)} :
     \E rates \in {np_array2(diagonal_reshape(Lv, Rows(electronic_hamiltonian)))} :
       \E ket_manifold_num, bra_manifold_num \in 0..num_sites :
         \E ket_size, bra_size \in EigenvalueCounts :
           \E result \in {make_eigenstate_optical_dephasing_Lindblad(
                             rates, ket_manifold_num, bra_manifold_num,
                             ket_size, bra_size)} :
             /\ call' = Call("make_eigenstate_optical_dephasing_Lindblad",
                             <<ket_manifold_num, bra_manifold_num,
                               Ravel(extract_coherence(rates, ket_manifold_num,
                                                       bra_manifold_num))>>)
             /\ ret' = result
             /\ pc' = IF result.error = NoError THEN "called" ELSE "raised"
  /\ UNCHANGED_by_builder

NextDecoherence ==
  \/ Call_optical_decoherence_instructions
  \/ Call_site_to_site_decoherence_instructions
  \/ Call_exciton_decoherence_instructions_by_manifold
  \/ Call_all_eigenstate_decoherence_instructions_by_manifold
  \/ Call_make_eigenstate_optical_dephasing_Lindblad

SpecDecoherence == InitDecoherence /\ [][NextDecoherence]_vars

\* ------------------------------------------------------------------------
\* The eigenstate decoherence generators
\* ------------------------------------------------------------------------
Quarter == Frac(1, 4)

When(condition, value) == IF condition THEN value ELSE Zero

\* one pass of the loop body of make_eigenstate_decoherence_Lindblad_all_rates
\* for the 1-based pair i < j
all_rates_step(acc, i, j, down_, up_) ==
  [pop_subspace |->
     [a \in 1..Rows(acc.L_diagonal) |-> [b \in 1..Rows(acc.L_diagonal) |->
        SumUpTo(<<acc.pop_subspace[a][b],
                  When(a = j /\ b = j, CMul(CNeg(Half), down_)),
                  When(a = i /\ b = j, CMul(Half, down_)),
                  When(a = i /\ b = i, CMul(CNeg(Half), up_)),
                  When(a = j /\ b = i, CMul(Half, up_))>>, 5)]],
   L_diagonal |->
     [a \in 1..Rows(acc.L_diagonal) |-> [b \in 1..Rows(acc.L_diagonal) |->
        SumUpTo(<<acc.L_diagonal[a][b],
                  When(a = j, CMul(CNeg(Quarter), down_)),
                  When(b = j, CMul(CNeg(Quarter), down_)),
                  When(a = j /\ b = j, CMul(CNeg(Half), down_)),
                  When(a = i, CMul(CNeg(Quarter), up_)),
                  When(b = i, CMul(CNeg(Quarter), up_)),
                  When(a = i /\ b = i, CMul(CNeg(Half), up_))>>, 7)]]]

\* the loops over i and j > i, up to the k-th pair
RECURSIVE all_rates_up_to(_, _, _, _)
all_rates_up_to(kT_, rates, E, k) ==
  IF k = 0
  THEN [pop_subspace |-> np_zeros(Len(E), Len(E)), L_diagonal |-> np_zeros(Len(E), Len(E))]
  ELSE LET i == combinations(Len(E), 2)[k][1] + 1
           j == combinations(Len(E), 2)[k][2] + 1
       IN  CHOOSE next \in
             {[pop_subspace |-> np_array2(all_rates_step(acc, i, j, CMul(bf[1], rates[i][j]),
                                             CMul(bf[2], rates[i][j])).pop_subspace),
               L_diagonal |-> np_array2(all_rates_step(acc, i, j, CMul(bf[1], rates[i][j]),
                                           CMul(bf[2], rates[i][j])).L_diagonal)] :
                acc \in {all_rates_up_to(kT_, rates, E, k - 1)},
                bf \in {boltzmann_factors(kT_, E[i], E[j]).value}} : TRUE

\* variant that leaves the population rows as np.diag made them
make_eigenstate_decoherence_Lindblad_all_rates_diagonal(kT_, rates, E) ==
  np_diag(Ravel(all_rates_up_to(kT_, rates, E, Len(combinations(Len(E), 2))).L_diagonal))

\* L_total[i, pop_inds] = pop_subspace[j, :] for the rows
\* pop_inds = arange(size) * (size + 1)
population_rows(L_total, pop_subspace, size) ==
  [r \in 1..(size * size) |-> [c \in 1..(size * size) |->
     IF (r - 1) % (size + 1) = 0 /\ (c - 1) % (size + 1) = 0
     THEN pop_subspace[((r - 1) \div (size + 1)) + 1][((c - 1) \div (size + 1)) + 1]
     ELSE L_total[r][c]]]

\* make_eigenstate_decoherence_Lindblad_all_rates for E = H_eigenvalues[manifold_num]:
\* np.diag(L_diagonal.ravel()) with the population rows replaced
make_eigenstate_decoherence_Lindblad_all_rates(kT_, rates, E) ==
  CHOOSE L_total \in
    UNION {{np_array2(population_rows(diagonal, acc.pop_subspace, Len(E))) :
              diagonal \in {np_array2(np_diag(Ravel(acc.L_diagonal)))}} :
           acc \in {all_rates_up_to(kT_, rates, E, Len(combinations(Len(E), 2)))}} : TRUE

\* the loop over the pairs of the ket manifold: rows j and i of L_diagonal
RECURSIVE ket_rates_up_to(_, _, _, _, _)
ket_rates_up_to(kT_, ket_rates, E_ket, bra_size, k) ==
  IF k = 0 THEN np_zeros(Len(E_ket), bra_size)
  ELSE LET i == combinations(Len(E_ket), 2)[k][1] + 1
           j == combinations(Len(E_ket), 2)[k][2] + 1
       IN  CHOOSE next \in
             {np_array2([a \in 1..Len(E_ket) |-> [b \in 1..bra_size |->
                SumUpTo(<<acc[a][b],
                          When(a = j, CMul(CNeg(Quarter), CMul(bf[1], ket_rates[i][j]))),
                          When(a = i, CMul(CNeg(Quarter), CMul(bf[2], ket_rates[i][j])))>>,
                        3)]]) :
                acc \in {ket_rates_up_to(kT_, ket_rates, E_ket, bra_size, k - 1)},
                bf \in {boltzmann_factors(kT_, E_ket[i], E_ket[j]).value}} : TRUE

\* the loop over the pairs of the bra manifold: columns j and i; down is
\* multiplied by bra_rates[i, j] twice and up is not multiplied
RECURSIVE bra_rates_up_to(_, _, _, _, _)
bra_rates_up_to(kT_, bra_rates, E_bra, L_diagonal, k) ==
  IF k = 0 THEN L_diagonal
  ELSE LET i == combinations(Len(E_bra), 2)[k][1] + 1
           j == combinations(Len(E_bra), 2)[k][2] + 1
       IN  CHOOSE next \in
             {np_array2([a \in 1..Rows(acc) |-> [b \in 1..Len(E_bra) |->
                SumUpTo(<<acc[a][b],
                          When(b = j, CMul(CNeg(Quarter),
                                           CMul(CMul(bf[1], bra_rates[i][j]),
                                                bra_rates[i][j]))),
                          When(b = i, CMul(CNeg(Quarter), bf[2]))>>, 3)]]) :
                acc \in {bra_rates_up_to(kT_, bra_rates, E_bra, L_diagonal, k - 1)},
                bf \in {boltzmann_factors(kT_, E_bra[i], E_bra[j]).value}} : TRUE

\* make_eigenstate_decoherence_Lindblad_all_rates_by_coherence for
\* E_ket = H_eigenvalues[ket_manifold_num], E_bra = H_eigenvalues[bra_manifold_num]
make_eigenstate_decoherence_Lindblad_all_rates_by_coherence(kT_, ket_rates, bra_rates, E_ket, E_bra, ket_manifold_num, bra_manifold_num) ==
  IF ket_manifold_num = bra_manifold_num
  THEN make_eigenstate_decoherence_Lindblad_all_rates(kT_, ket_rates, E_ket)
  ELSE CHOOSE L_total \in
         UNION {{np_diag(Ravel(L_diagonal)) :
                   L_diagonal \in {bra_rates_up_to(kT_, bra_rates, E_bra, ket_part,
                                                   Len(combinations(Len(E_bra), 2)))}} :
                ket_part \in {ket_rates_up_to(kT_, ket_rates, E_ket, Len(E_bra),
                                              Len(combinations(Len(E_ket), 2)))}} : TRUE

\* --- the eigenvalues of two manifolds, ascending as np.linalg.eigh
\* returns them, and their rates
ManifoldEigenvalues ==
  {<<Real(1)>>, <<Zero, Real(1)>>, <<Real(1), Real(1)>>,
   <<Zero, Real(1), Real(1)>>, <<Zero, Zero, Real(2)>>}

RatedManifolds == 0..1

InitRates ==
  /\ pc = "eigenstates"
  /\ kT \in ConfiguredKT
  /\ Unset

UNCHANGED_by_generator ==
  UNCHANGED <<operator_fields, rate_fields, num_vibrations,
              electronic_dissipation_instructions, all_instructions,
              liouville_fields, vibronic_fields>>

\* call.args: the rates and H_eigenvalues[manifold_num]
Call_make_eigenstate_decoherence_Lindblad_all_rates ==
  /\ pc = "eigenstates"
  /\ \E E \in ManifoldEigenvalues :
       \E rates \in RateMatrices(Len(E)) :
         /\ call' = Call("make_eigenstate_decoherence_Lindblad_all_rates", <<rates, E>>)
         /\ ret' = Returned(np_array2(
                      make_eigenstate_decoherence_Lindblad_all_rates(kT, rates, E)))
  /\ pc' = "called"
  /\ UNCHANGED_by_generator

\* call.args: the two manifolds, H_eigenvalues and the rates of every manifold
Call_make_eigenstate_decoherence_Lindblad_all_rates_by_coherence ==
  /\ pc = "eigenstates"
  /\ \E ket_manifold_num, bra_manifold_num \in RatedManifolds :
       \E H_eigenvalues \in [RatedManifolds -> ManifoldEigenvalues] :
         \E all_rates \in {f \in [RatedManifolds -> UNION {RateMatrices(s) : s \in 1..3}] :
                              \A m \in RatedManifolds :
                                f[m] \in RateMatrices(Len(H_eigenvalues[m]))} :
           /\ call' = Call("make_eigenstate_decoherence_Lindblad_all_rates_by_coherence",
                           <<ket_manifold_num, bra_manifold_num, H_eigenvalues, all_rates>>)
           /\ ret' = Returned(np_array2(
                        make_eigenstate_decoherence_Lindblad_all_rates_by_coherence(
                          kT, all_rates[ket_manifold_num], all_rates[bra_manifold_num],
                          H_eigenvalues[ket_manifold_num], H_eigenvalues[bra_manifold_num],
                          ket_manifold_num, bra_manifold_num)))
  /\ pc' = "called"
  /\ UNCHANGED_by_generator

NextRates ==
  \/ Call_make_eigenstate_decoherence_Lindblad_all_rates
  \/ Call_make_eigenstate_decoherence_Lindblad_all_rates_by_coherence

SpecRates == InitRates /\ [][NextRates]_vars

\* ------------------------------------------------------------------------
\* Properties
\* ------------------------------------------------------------------------
RECURSIVE Pow2(_)
Pow2(n) == IF n = 0 THEN 1 ELSE 2 * Pow2(n - 1)

RECURSIVE Binomial(_, _)
Binomial(n, k) ==
  IF k = 0 \/ k = n THEN 1 ELSE Binomial(n - 1, k - 1) + Binomial(n - 1, k)

Range(seq) == {seq[k] : k \in 1..Len(seq)}

Constructed == pc = "polymer"
Called(name) == pc = "called" /\ call.op = name

\* C1: for every number of sites the index sets electronic_manifold_mask(k),
\* k = 0..n, are pairwise disjoint and their union is all of 0..2^n-1.
C1_MasksPartitionBasis ==
  Constructed =>
    /\ \A k \in 0..num_sites, l \in 0..num_sites :
         k # l => Range(electronic_manifold_mask(k)) \cap Range(electronic_manifold_mask(l)) = {}
    /\ UNION {Range(electronic_manifold_mask(k)) : k \in 0..num_sites}
         = 0..(Pow2(num_sites) - 1)

\* a mask with several members was returned for a system of several sites
C1_Witness ==
  /\ Called("electronic_manifold_mask")
  /\ num_sites >= 2
  /\ call.args[1] \in 1..(num_sites - 1)
  /\ Len(ret.value) >= 2

\* C2: electronic_manifold_mask(k) holds exactly C(n,k) indices for every k
\* in 0..n, whatever the site energies and couplings; for two sites the
\* sizes are 1, 2, 1.
C2_MaskSizesAreBinomial ==
  Constructed =>
    /\ \A k \in 0..num_sites :
         Len(electronic_manifold_mask(k)) = Binomial(num_sites, k)
    /\ num_sites = 2 =>
         <<Len(electronic_manifold_mask(0)), Len(electronic_manifold_mask(1)),
           Len(electronic_manifold_mask(2))>> = <<1, 2, 1>>

\* the single-excitation mask of a two-site system was returned, with 2 members
C2_Witness ==
  /\ Called("electronic_manifold_mask")
  /\ num_sites = 2
  /\ call.args[1] = 1
  /\ Len(ret.value) = 2

\* ------------------------------------------------------------------------
\* Properties of the dissipator library
\* ------------------------------------------------------------------------
Applied(name) == pc = "applied" /\ call.op = name

NonZeroVector(v) == \E k \in 1..Len(v) : v[k] # Zero

\* C3: for every rate gamma and every square operator O, the Liouvillian
\* that make_Liouvillian assembles from make_Lindblad_instructions(gamma, O),
\* applied to the row-major vectorization of any square rho, yields a vector
\* whose reshaped matrix has trace 0.
C3_LindbladIsTracePreserving ==
  Applied("make_Lindblad_instructions") =>
    Trace(Reshape(drho, Rows(rho), Cols(rho))) = Zero

\* a dissipator with a nonzero rate changed a 2x2 rho
C3_Witness ==
  /\ Applied("make_Lindblad_instructions")
  /\ call.args[1] # Zero
  /\ Rows(rho) = 2
  /\ NonZeroVector(drho)

\* C4: make_commutator_instructions(O) returns exactly [(O, I), (I, -O)];
\* its Liouvillian applied to vec(rho) is vec(O rho - rho O); and the
\* Liouvillian of make_commutator_instructions2(Oket, Obra) applied to
\* vec(rho), rho of shape dim(Oket) x dim(Obra), is vec(Oket rho - rho Obra).
C4_CommutatorIsVectorizedCommutator ==
  /\ (pc \in {"instructions", "assembled", "applied"}
        /\ call.op = "make_commutator_instructions") =>
       LET O == call.args[1]
       IN  ret.value = << <<O, np_eye(Rows(O))>>, <<np_eye(Rows(O)), MatNeg(O)>> >>
  /\ Applied("make_commutator_instructions") =>
       LET O == call.args[1]
       IN  drho = Ravel(MatSub(np_dot(O, rho), np_dot(rho, O)))
  /\ Applied("make_commutator_instructions2") =>
       LET Oket == call.args[1]
           Obra == call.args[2]
       IN  /\ Rows(rho) = Rows(Oket)
           /\ Cols(rho) = Rows(Obra)
           /\ drho = Ravel(MatSub(np_dot(Oket, rho), np_dot(rho, Obra)))

\* an operator that is not symmetric, applied to a rho it does not commute with
C4_Witness ==
  /\ Applied("make_commutator_instructions")
  /\ call.args[1] # Transpose(call.args[1])
  /\ NonZeroVector(drho)

\* the two-space form applied to a rectangular rho
C4_WitnessTwoSpace ==
  /\ Applied("make_commutator_instructions2")
  /\ Rows(rho) # Cols(rho)
  /\ NonZeroVector(drho)

\* ------------------------------------------------------------------------
\* Properties of the detailed balance weights
\* ------------------------------------------------------------------------
\* C5: boltzmann_factors(E, E) returns (0.5, 0.5) for every E and every kT,
\* and boltzmann_factors(E2, E1) is boltzmann_factors(E1, E2) with its two
\* components swapped.
C5_BoltzmannSwapSymmetry ==
  Called("boltzmann_factors") =>
    LET E1 == call.args[1]
        E2 == call.args[2]
        other == boltzmann_factors(kT, E2, E1).value
    IN  /\ E1 = E2 => ret.value = <<Half, Half>>
        /\ ret.value = <<other[2], other[1]>>

\* two different energies at a nonzero temperature, with unequal weights
C5_Witness ==
  /\ Called("boltzmann_factors")
  /\ RLess(call.args[2], call.args[1])
  /\ kT # Zero
  /\ ret.value[1] # ret.value[2]
  /\ ret.value[1] # Zero

\* a call with E_low < E_high that takes one of the two limit branches:
\* kT == 0, or kT != 0 and the partition function within 1e-8 of zero
LimitCall ==
  /\ pc = "called"
  /\ call.op \in {"boltzmann_factors", "boltzmann_factors_ordered_inputs"}
  /\ RLess(call.args[1], call.args[2])
  /\ \/ kT = Zero
     \/ np_isclose_zero(partition_function(kT, call.args[1], call.args[2]))

\* C6 as stated: for E_low < E_high the result is exactly (1, 0) when
\* kT == 0 and when Z is close to zero, and in neither case is a division
\* by kT or by Z performed.
C6_NoDivisionInEitherLimit ==
  LimitCall => ret.value = <<One, Zero>> /\ ret.divisions = {}

\* C6: for E_low < E_high the result is exactly (1, 0) when kT == 0, with
\* no division performed, and when Z is close to zero, with no division by
\* Z performed; in the second case Z itself has been computed by dividing
\* the energies by the nonzero kT.
C6_LimitBranches ==
  LimitCall =>
    /\ ret.value = <<One, Zero>>
    /\ "Z" \notin ret.divisions
    /\ kT = Zero => ret.divisions = {}
    /\ kT # Zero => ret.divisions = {"kT"}

\* both weights underflow, so Z is exactly 0.0 at a nonzero temperature
C6_Witness ==
  /\ LimitCall
  /\ kT # Zero
  /\ partition_function(kT, call.args[1], call.args[2]) = Zero
  /\ ret.value = <<One, Zero>>

\* the zero temperature branch
C6_WitnessZeroTemperature ==
  /\ LimitCall
  /\ kT = Zero
  /\ ret.value = <<One, Zero>>

\* ------------------------------------------------------------------------
\* Properties of the assembled instruction list
\* ------------------------------------------------------------------------
\* the configured rate of each dissipator family
FamilyRate ==
  [optical_dephasing |-> optical_dephasing_gamma,
   optical_decoherence |-> optical_decoherence_gamma,
   site_to_site_dephasing |-> site_to_site_dephasing_gamma,
   site_to_site_decoherence |-> site_to_site_decoherence_gamma,
   exciton_exciton_dephasing |-> exciton_exciton_dephasing_gamma,
   exciton_decoherence |-> exciton_decoherence_gamma,
   vibrational_relaxation |-> vibrational_gamma]

Families == DOMAIN FamilyRate

OfFamily(inst_list, family) ==
  LET Test(inst) == inst.family = family
  IN  SelectSeq(inst_list, Test)

\* C7 as stated: for each of the seven dissipator families, when its
\* configured rate is exactly 0 the instruction list used to build the
\* Liouvillian contains no instruction contributed by that family.
C7_ZeroRateSkipsBuilder ==
  pc = "instructions" =>
    \A family \in Families :
      FamilyRate[family] = Zero => OfFamily(all_instructions, family) = <<>>

\* the five families whose builder call is behind a test of the rate
GuardedFamilies ==
  {"optical_decoherence", "site_to_site_dephasing", "site_to_site_decoherence",
   "exciton_exciton_dephasing", "exciton_decoherence"}

\* what holds of the seven families: a guarded family with rate 0
\* contributes nothing, while optical dephasing always contributes its
\* three instructions and, outside the detailed balance branch, every
\* vibrational mode contributes at least three
C7_GuardedFamiliesSkipped ==
  /\ pc \in {"dissipation", "vibrations", "instructions"} =>
       /\ \A family \in GuardedFamilies :
            FamilyRate[family] = Zero =>
              OfFamily(electronic_dissipation_instructions, family) = <<>>
       /\ Len(OfFamily(electronic_dissipation_instructions, "optical_dephasing")) = 3
  /\ pc = "instructions" =>
       /\ \A family \in GuardedFamilies :
            FamilyRate[family] = Zero => OfFamily(all_instructions, family) = <<>>
       /\ OfFamily(all_instructions, "vibrational_relaxation") # <<>> =>
            /\ Len(OfFamily(all_instructions, "optical_dephasing")) = 3
            /\ Len(OfFamily(all_instructions, "vibrational_relaxation"))
                 >= 3 * num_vibrations

\* a zero optical dephasing rate whose three instructions are in the list
C7_ZeroRateOpticalDephasingPresent ==
  /\ pc = "instructions"
  /\ optical_dephasing_gamma = Zero
  /\ Len(OfFamily(all_instructions, "optical_dephasing")) = 3

\* a zero vibrational rate whose instructions are in the list
C7_ZeroRateVibrationalPresent ==
  /\ pc = "instructions"
  /\ vibrational_gamma = Zero
  /\ num_vibrations >= 1
  /\ OfFamily(all_instructions, "vibrational_relaxation") # <<>>

\* ------------------------------------------------------------------------
\* Properties of the tensor factor builder
\* ------------------------------------------------------------------------
TooManyElements == "ValueError: Too many elements for Hilbert space"

\* C8 as stated: a request to place more local operators than there are
\* sites fails with an error and returns no operator list, whether made
\* through electronic_identity_kron or through make_multi_operator_list;
\* so the exchange list of a one-site system cannot be built.
C8_TooManyOperatorsFail ==
  /\ (Called("electronic_identity_kron") /\ Len(call.args[1]) > num_sites) =>
       ret.error # NoError /\ ret.value = <<>>
  /\ (Called("make_multi_operator_list") /\ Len(call.args[1]) > num_sites) =>
       ret.error # NoError /\ ret.value = <<>>
  /\ (pc # "start" /\ num_sites = 1) => pc = "raised"

\* C8: electronic_identity_kron given more operators than there are sites
\* raises ValueError('Too many elements for Hilbert space') and returns
\* nothing, and raises in no other case; make_multi_operator_list given
\* more operators than there are sites raises nothing and returns the
\* empty list, so a one-site system is constructed with an empty exchange
\* list.
C8_TooManyOperators ==
  /\ Called("electronic_identity_kron") =>
       IF Len(call.args[1]) > num_sites
       THEN ret.error = TooManyElements /\ ret.value = <<>>
       ELSE ret.error = NoError /\ Rows(ret.value) = Pow2(num_sites)
  /\ (Called("make_multi_operator_list") /\ Len(call.args[1]) > num_sites) =>
       ret = Returned(<<>>)
  /\ pc # "raised"
  /\ (pc # "start" /\ num_sites = 1) => exchange_list = <<>>

\* two operators were requested of a one-site system through
\* make_multi_operator_list
C8_Witness ==
  /\ Called("make_multi_operator_list")
  /\ num_sites = 1
  /\ Len(call.args[1]) = 2
  /\ ret = Returned(<<>>)

\* too many operators were requested through electronic_identity_kron
C8_WitnessIdentityKron ==
  /\ Called("electronic_identity_kron")
  /\ Len(call.args[1]) > num_sites
  /\ ret.error = TooManyElements

\* ------------------------------------------------------------------------
\* Properties of the site pair ordering
\* ------------------------------------------------------------------------
\* occupation of site s (0-based, site 0 the leftmost tensor factor) in
\* basis state b of an n-site system
Bit(b, s, n) == (b \div Pow2(n - 1 - s)) % 2

SitePairs(n) == {p \in (0..(n - 1)) \X (0..(n - 1)) : p[1] < p[2]}

LexLess(p, q) == p[1] < q[1] \/ (p[1] = q[1] /\ p[2] < q[2])

\* the k-th site pair in the order (0,1),(0,2),...,(0,n-1),(1,2),...
PairAt(n, k) ==
  CHOOSE p \in SitePairs(n) :
    Cardinality({q \in SitePairs(n) : LexLess(q, p)}) = k - 1

\* M is not zero and connects only basis states that differ at exactly
\* the sites i and j
ActsOnPair(M, i, j, n) ==
  /\ \E r \in 1..Rows(M), c \in 1..Cols(M) : M[r][c] # Zero
  /\ \A r \in 1..Rows(M), c \in 1..Cols(M) :
       M[r][c] # Zero =>
         \A s \in 0..(n - 1) :
           (Bit(r - 1, s, n) # Bit(c - 1, s, n)) <=> (s \in {i, j})

\* the instructions of a family, cut into consecutive groups of size
Group(inst_list, family, size, g) ==
  SubSeq(OfFamily(inst_list, family), (g - 1) * size + 1, g * size)

\* C9: position tuples are enumerated in lexicographic order: for every n
\* the k-th entry of exchange_list acts on the k-th site pair (i<j) of
\* (0,1),(0,2),...,(0,n-1),(1,2),..., the Hamiltonian couples the single
\* excitations of that pair with the k-th coupling, and
\* site_to_site_decoherence_instructions and the dephasing operator lists
\* pair their k-th entry with that same site pair.
C9_PairOrderIsLexicographic ==
  /\ Constructed =>
       /\ Len(exchange_list) = NumPairs(num_sites)
       /\ \A k \in 1..Len(exchange_list) :
            LET p == PairAt(num_sites, k)
                ei == Pow2(num_sites - 1 - p[1])
                ej == Pow2(num_sites - 1 - p[2])
            IN  /\ ActsOnPair(exchange_list[k], p[1], p[2], num_sites)
                /\ electronic_hamiltonian[ei + 1][ej + 1] = couplings[k]
                /\ electronic_hamiltonian[ej + 1][ei + 1] = couplings[k]
  /\ pc = "dissipation" =>
       \A k \in 1..NumPairs(num_sites) :
         LET p == PairAt(num_sites, k)
             insts == electronic_dissipation_instructions
         IN  /\ site_to_site_decoherence_gamma # Zero =>
                  /\ Len(OfFamily(insts, "site_to_site_decoherence"))
                       = 6 * NumPairs(num_sites)
                  /\ \A m \in 1..6 :
                       LET inst == Group(insts, "site_to_site_decoherence", 6, k)[m]
                       IN  /\ inst.O.op = "exchange_list"
                           /\ inst.O.a = k - 1
                           /\ inst.bf.kind = "site"
                           /\ <<inst.bf.a, inst.bf.b>> = p
             /\ site_to_site_dephasing_gamma # Zero =>
                  /\ Len(OfFamily(insts, "site_to_site_dephasing"))
                       = 3 * NumPairs(num_sites)
                  /\ \A m \in 1..3 :
                       LET inst == Group(insts, "site_to_site_dephasing", 3, k)[m]
                       IN  <<inst.O.a, inst.O.b>> = p
             /\ exciton_exciton_dephasing_gamma # Zero =>
                  /\ Len(OfFamily(insts, "exciton_exciton_dephasing"))
                       = 3 * NumPairs(num_sites)
                  /\ \A m \in 1..3 :
                       LET inst == Group(insts, "exciton_exciton_dephasing", 3, k)[m]
                       IN  <<inst.O.a, inst.O.b>> = p

\* three sites, so three pairs, with both site-to-site families switched on
C9_Witness ==
  /\ pc = "dissipation"
  /\ num_sites = 3
  /\ site_to_site_decoherence_gamma # Zero
  /\ site_to_site_dephasing_gamma # Zero
  /\ Len(electronic_dissipation_instructions) >= 3 + 9 + 18

\* M lowers site lowered and raises site raised: a basis state with
\* lowered occupied and raised empty goes to the state with lowered empty
\* and raised occupied, the other sites unchanged; every other basis state
\* goes to 0
Moves(M, n, lowered, raised) ==
  \A c \in 0..(Pow2(n) - 1) :
    LET target == c - Pow2(n - 1 - lowered) + Pow2(n - 1 - raised)
        moved == Bit(c, lowered, n) = 1 /\ Bit(c, raised, n) = 0
    IN  \A r \in 0..(Pow2(n) - 1) :
          M[r + 1][c + 1] = IF moved /\ r = target THEN One ELSE Zero

\* C10 as stated: for every site pair i<j the stored exchange operator
\* raises site j and lowers site i.
C10_ExchangeRaisesSecondSite ==
  Constructed =>
    \A k \in 1..Len(exchange_list) :
      LET p == PairAt(num_sites, k)
      IN  Moves(exchange_list[k], num_sites, p[1], p[2])

\* C10: for every site pair i<j the stored exchange operator raises site i
\* and lowers site j: it maps each basis state with site i empty and site j
\* occupied to the basis state with site i occupied and site j empty (all
\* other sites unchanged) and annihilates every other basis state.
C10_ExchangeRaisesFirstSite ==
  Constructed =>
    /\ Len(exchange_list) = NumPairs(num_sites)
    /\ \A k \in 1..Len(exchange_list) :
         LET p == PairAt(num_sites, k)
         IN  Moves(exchange_list[k], num_sites, p[2], p[1])

\* a system with several pairs was constructed
C10_Witness ==
  /\ Constructed
  /\ num_sites = 3
  /\ Len(exchange_list) = 3
  /\ exchange_list[1] # Transpose(exchange_list[1])

\* ------------------------------------------------------------------------
\* Properties of the electronic Liouvillian
\* ------------------------------------------------------------------------
IsDiagonal(M) ==
  \A r \in 1..Rows(M), c \in 1..Cols(M) : r # c => M[r][c] = Zero

\* the eigenvalues of a diagonal matrix are its diagonal entries
ZeroEigenvalues(M) == {k \in 1..Rows(M) : M[k][k] = Zero}
DecayingEigenvalues(M) == {k \in 1..Rows(M) : M[k][k][1] < 0}

\* C11 as stated: for one site with only optical dephasing active, the
\* Liouvillian built by make_total_Liouvillian has exactly one eigenvalue
\* equal to 0 and every other eigenvalue has strictly negative real part.
C11_SingleZeroEigenvalue ==
  Called("make_total_Liouvillian") =>
    /\ IsDiagonal(L)
    /\ Cardinality(ZeroEigenvalues(L)) = 1
    /\ ZeroEigenvalues(L) \cup DecayingEigenvalues(L) = 1..Rows(L)

\* C11: for one site with only optical dephasing active, the Liouvillian
\* built by make_total_Liouvillian is diagonal with exactly two eigenvalues
\* equal to 0, those of the two populations rho[0,0] and rho[1,1]; the
\* other two, of the coherences, are -gamma/2 +- iE, with strictly negative
\* real part.
C11_TwoZeroEigenvalues ==
  Called("make_total_Liouvillian") =>
    /\ IsDiagonal(L)
    /\ ZeroEigenvalues(L) = {1, 4}
    /\ DecayingEigenvalues(L) = {2, 3}
    /\ L[2][2] = CAdd(CNeg(CHalf(optical_dephasing_gamma)),
                      CMul(<<0, 1, 1>>, energies[1]))
    /\ L[3][3] = CConj(L[2][2])

\* the configuration of the claim: energy 1, gamma 0.1, kT 1
C11_Witness ==
  /\ Called("make_total_Liouvillian")
  /\ num_sites = 1
  /\ energies = <<One>>
  /\ optical_dephasing_gamma = Frac(1, 10)
  /\ kT = One
  /\ L[2][2] = <<-1, 20, 20>>

\* ------------------------------------------------------------------------
\* Manifold structure of the operators in the instruction lists.  What is
\* kept of an operator is whether it conserves the electronic manifold
\* number: whether every entry that can be nonzero joins two basis states
\* of the same manifold.  Sums, products and transposes of conserving
\* operators conserve it, and the vibrational factor of a vibronic operator
\* never changes it (vibronic_manifold_mask takes the manifold of the
\* electronic index).
\* ------------------------------------------------------------------------
\* a matrix on the electronic space
MatrixConserves(M) ==
  LET occ == electronic_total_occupation_number
  IN  \A r \in 1..Rows(M), c \in 1..Cols(M) : M[r][c] # Zero => occ[r] = occ[c]

\* the block filled with the rows of one manifold and the columns of the
\* manifold below
manifold_to_full_shifted(manifold_num) ==
  LET occ == electronic_total_occupation_number
  IN  \A r \in Range(mask_of(occ, manifold_num)),
         c \in Range(mask_of(occ, manifold_num - 1)) : occ[r + 1] = occ[c + 1]

\* manifold_to_full(O, manifold_num): zeros except in the rows and columns
\* of electronic_manifold_mask(manifold_num)
manifold_to_full(manifold_num) ==
  LET occ == electronic_total_occupation_number
  IN  \A r \in Range(mask_of(occ, manifold_num)),
         c \in Range(mask_of(occ, manifold_num)) : occ[r + 1] = occ[c + 1]

\* self.electronic_eigenvectors: the sum over the manifolds i of
\* manifold_to_full(v_i, i)
electronic_eigenvectors_conserve ==
  \A i \in 0..num_sites : manifold_to_full(i)

\* the electronic factors that the vibrational operators are kron'ed onto:
\* empty_list[site] and occupied_list[site] of the site of each mode
vibration_sites_conserve ==
  \A s \in 1..num_sites :
    MatrixConserves(empty_list[s]) /\ MatrixConserves(occupied_list[s])

\* optical_dephasing_operator: the sum of the sz_list
optical_dephasing_operator_conserves ==
  \A s \in 1..num_sites : MatrixConserves(sz_list[s])

\* sz_list[i] - sz_list[j]
site_to_site_dephasing_operator_conserves(i, j) ==
  MatrixConserves(sz_list[i + 1]) /\ MatrixConserves(sz_list[j + 1])

\* v.dot(sz_list[i].dot(v.T)) - v.dot(sz_list[j].dot(v.T))
exciton_exciton_dephasing_operator_conserves(i, j) ==
  /\ electronic_eigenvectors_conserve
  /\ MatrixConserves(sz_list[i + 1])
  /\ MatrixConserves(sz_list[j + 1])

\* np.kron(e_ham, vibrational_identity) + vibrational_hamiltonian
total_hamiltonian_conserves ==
  /\ MatrixConserves(electronic_hamiltonian)
  /\ num_vibrations > 0 => vibration_sites_conserve

\* the operator O an instruction record was built from, given as the pair
\* of the record's operator and the manifold of its thermal weight; left
\* and right of an instruction are O, its adjoint, the product of the two,
\* or the identity
OperatorConserves(Om) ==
  LET O == Om[1]
  IN  CASE O.op = "sz_total" -> optical_dephasing_operator_conserves
        [] O.op = "sz_difference" -> site_to_site_dephasing_operator_conserves(O.a, O.b)
        [] O.op = "exchange_list" -> MatrixConserves(exchange_list[O.a + 1])
        [] O.op = "up_list" -> MatrixConserves(up_list[O.a + 1])
        [] O.op = "exciton_sz_difference" ->
             exciton_exciton_dephasing_operator_conserves(O.a, O.b)
        [] O.op = "exciton_exchange" -> manifold_to_full(Om[2])
        [] O.op = "total_hamiltonian" -> total_hamiltonian_conserves
        [] O.op = "vibrational_lowering" -> vibration_sites_conserve

OperatorsOf(inst_list) ==
  {<<inst_list[k].O, inst_list[k].bf.manifold>> : k \in 1..Len(inst_list)}

C12_WitnessNotSeparable ==
  /\ pc = "instructions"
  /\ ~manifolds_separable
  /\ \E Om \in OperatorsOf(all_instructions) : ~OperatorConserves(Om)

\* the fields the object accumulates during construction
AccumulatedFields ==
  {"electronic_hamiltonian", "total_hamiltonian", "mu",
   "electronic_dissipation_instructions", "all_instructions",
   "L_by_manifold", "eigenvalues", "eigenvectors"}

Writers(f) == Range(written[f])

ConstructionDone == pc = "done"

\* C13 as stated: every accumulated field is written by one constructor
\* step and by no later one, in every configuration.
C13_EveryFieldWrittenByOneStage ==
  \A f \in AccumulatedFields : Cardinality(Writers(f)) <= 1

\* C13: the electronic Hamiltonian, the instruction lists and the
\* eigenvalues/eigenvectors are written by one constructor step each;
\* total_hamiltonian is assigned in __init__ and assigned again by
\* add_vibrations; mu is assigned by make_mu_dict_site_basis and
\* make_mu_site_basis and again by make_condon_mu; the L_by_manifold blocks
\* are written by set_L_by_manifold only, except with force_detailed_balance,
\* where add_eigenstate_decoherence_effects and (when there is a block with
\* k != l) add_eigenstate_optical_dephasing_effects update them in place.
C13_WritersOfEachField ==
  /\ \A f \in {"electronic_hamiltonian", "electronic_dissipation_instructions",
               "all_instructions", "eigenvalues", "eigenvectors"} :
       Cardinality(Writers(f)) <= 1
  /\ ConstructionDone =>
       /\ written["electronic_hamiltonian"] = <<"set_electronic_hamiltonian">>
       /\ written["all_instructions"] = <<"OpenPolymerVibrations.__init__">>
       /\ written["total_hamiltonian"] = <<"OpenPolymerVibrations.__init__", "add_vibrations">>
       /\ written["mu"] = <<"make_mu_dict_site_basis", "make_mu_site_basis", "make_condon_mu">>
       /\ written["L_by_manifold"] =
            IF force_detailed_balance
            THEN IF maximum_manifold >= 1
                 THEN <<"set_L_by_manifold", "add_eigenstate_decoherence_effects",
                        "add_eigenstate_optical_dephasing_effects">>
                 ELSE <<"set_L_by_manifold", "add_eigenstate_decoherence_effects">>
            ELSE IF manifolds_separable THEN <<"set_L_by_manifold">> ELSE <<>>
       /\ written["eigenvalues"] =
            IF for_RK THEN <<>>
            ELSE IF manifolds_separable THEN <<"set_eigensystem_by_manifold">>
            ELSE <<"set_eigensystem">>

\* a finished construction with force_detailed_balance and per-manifold
\* diagonalization
C13_Witness ==
  /\ ConstructionDone
  /\ force_detailed_balance /\ ~for_RK /\ manifolds_separable
  /\ maximum_manifold >= 1
  /\ Len(written["L_by_manifold"]) = 3
  /\ Len(written["total_hamiltonian"]) = 2

\* a finished construction without force_detailed_balance
C13_WitnessPlain ==
  /\ ConstructionDone
  /\ ~force_detailed_balance /\ ~for_RK /\ manifolds_separable
  /\ written["L_by_manifold"] = <<"set_L_by_manifold">>

DiagonalizationFailed ==
  pc = "raised" /\ ret.error = "Diagonalization by manifold failed"

\* C14 as stated: when set_electronic_eigensystem raises, it has assigned
\* none of electronic_eigenvectors, electronic_eigenvalues, exciton_energies.
C14_NothingAssignedBeforeRaise ==
  DiagonalizationFailed =>
    \A f \in {"electronic_eigenvectors", "electronic_eigenvalues", "exciton_energies"} :
      written[f] = <<>>

\* C14: when the reconstructed eigenbasis fails to diagonalize the
\* Hamiltonian, set_electronic_eigensystem raises and construction stops
\* there; electronic_eigenvectors and electronic_eigenvalues are unassigned,
\* exciton_energies has already been assigned, and no later step has run.
C14_RaiseLeavesEigenvectorsUnset ==
  DiagonalizationFailed =>
    /\ written["electronic_eigenvectors"] = <<>>
    /\ written["electronic_eigenvalues"] = <<>>
    /\ written["exciton_energies"] = <<"set_electronic_eigensystem">>
    /\ \A f \in Fields \ {"mu_dict", "mu", "mu_ket_up", "electronic_hamiltonian",
                          "exciton_energies"} : written[f] = <<>>
    /\ ~ENABLED NextStages

C14_Witness ==
  /\ DiagonalizationFailed
  /\ written["electronic_hamiltonian"] # <<>>

\* an eigfun call has returned its triple
EigfunReturned == call.op = "eigfun" /\ ret.error = NoError

EigfunRaised == call.op = "eigfun" /\ pc = "raised"

\* C15: when the check of left.L.right against diag(eigenvalues) fails,
\* eigfun only warns: it stores self.eigenvalues and self.eigenvectors,
\* returns the triple it returns when the check passes, and the loop of
\* set_eigensystem_by_manifold goes on to the remaining blocks and fills
\* every key.
C15_FailedCheckOnlyWarns ==
  /\ EigfunReturned =>
       /\ eigenvalues = ret.value[1]
       /\ eigenvectors = [left |-> ret.value[3], right |-> ret.value[2]]
       /\ \A passed \in {eigfun(call.args[1], call.eig, call.args[2], call.args[3],
                                 TRUE, TRUE).value} :
            ret.value = <<passed.eigvals, passed.right, passed.left>>
  /\ pc \in {"set_eigensystem_by_manifold", "eigensystem_by_manifold"} =>
       /\ ret.error = NoError
       /\ warnings <= Cardinality(DOMAIN eigenvalues_by_manifold)
       /\ eigenvalues_by_manifold[
            KeyOrder(int_sqrt(Cardinality(DOMAIN L_by_manifold)) - 1)[
              Cardinality(DOMAIN eigenvalues_by_manifold)]] = ret.value[1]
  /\ pc = "eigensystem_by_manifold" =>
       /\ DOMAIN eigenvalues_by_manifold = DOMAIN L_by_manifold
       /\ DOMAIN right_eigenvectors_by_manifold = DOMAIN L_by_manifold
       /\ DOMAIN left_eigenvectors_by_manifold = DOMAIN L_by_manifold

\* a single call whose check failed
C15_Witness ==
  /\ pc = "called"
  /\ EigfunReturned
  /\ warnings = 1
  /\ Rows(call.args[1]) = 4
  /\ eigenvalues = ret.value[1]

\* the loop finished all four blocks although the first check failed
C15_WitnessLoop ==
  /\ pc = "eigensystem_by_manifold"
  /\ warnings = 4
  /\ Cardinality(DOMAIN eigenvalues_by_manifold) = 4

ReturnedEigvals == ret.value[1]
ReturnedRight(i) == Column(ret.value[2], i)

TraceOf(v, populations_only) ==
  IF populations_only THEN SumUpTo(v, Len(v))
  ELSE Trace(Reshape(v, int_sqrt(Len(v)), int_sqrt(Len(v))))

SignConvention(v) == IsFinite(v) /\ v[argmax_abs(v)][1] >= 0

C16_WitnessNegativeTrace ==
  /\ EigfunReturned
  /\ call.args[2]
  /\ Len(ReturnedEigvals) = 3
  /\ ReturnedEigvals[3] = Zero
  /\ ReturnedRight(3) = <<Real(-2), One, Real(2)>>

\* C17 as stated: for every block, eigfun completes without error, and
\* every returned right eigenvector of rounded eigenvalue 0 is finite and
\* has trace 1 (sum 1 when populations_only).
C17_ZeroEigenvectorsTraceNormalized ==
  /\ ~EigfunRaised
  /\ EigfunReturned =>
       \A i \in 1..Len(ReturnedEigvals) :
         ReturnedEigvals[i] = Zero =>
           /\ IsFinite(ReturnedRight(i))
           /\ TraceOf(ReturnedRight(i), call.args[2]) = One

\* ------------------------------------------------------------------------
\* Rates of the exciton families
\* ------------------------------------------------------------------------
\* the rate of every instruction of the family is the configured rate
\* divided by 2n
RateDividedBy2n(family) ==
  \A k \in 1..Len(electronic_dissipation_instructions) :
    LET inst == electronic_dissipation_instructions[k]
    IN  inst.family = family =>
          inst.gamma = CDivReal(FamilyRate[family], Real(2 * num_sites))

\* C18 as stated: every exciton-exciton dephasing instruction and every
\* exciton decoherence instruction uses the configured rate divided by 2n,
\* the decoherence instructions times their Boltzmann weight.
C18_BothExcitonFamiliesDividedBy2n ==
  pc = "dissipation" =>
    /\ RateDividedBy2n("exciton_exciton_dephasing")
    /\ RateDividedBy2n("exciton_decoherence")

\* C18: every exciton-exciton dephasing instruction uses the configured
\* rate divided by 2n with no thermal weight; every exciton decoherence
\* instruction uses the configured rate itself, not divided, times a
\* Boltzmann weight of two exciton levels of its manifold.
C18_OnlyExcitonDephasingDividedBy2n ==
  pc = "dissipation" =>
    /\ RateDividedBy2n("exciton_exciton_dephasing")
    /\ \A k \in 1..Len(electronic_dissipation_instructions) :
         LET inst == electronic_dissipation_instructions[k]
         IN  /\ inst.family = "exciton_exciton_dephasing" => inst.bf = NoWeight
             /\ inst.family = "exciton_decoherence" =>
                  /\ inst.gamma = exciton_decoherence_gamma
                  /\ inst.bf.kind = "exciton"
                  /\ inst.bf.manifold \in 1..num_sites
                  /\ inst.bf.a < inst.bf.b
                  /\ inst.bf.comp = (IF inst.O.T THEN 2 ELSE 1)

\* two sites with both exciton families switched on
C18_Witness ==
  /\ pc = "dissipation"
  /\ num_sites = 2
  /\ exciton_exciton_dephasing_gamma # Zero
  /\ exciton_decoherence_gamma # Zero
  /\ OfFamily(electronic_dissipation_instructions, "exciton_exciton_dephasing") # <<>>
  /\ OfFamily(electronic_dissipation_instructions, "exciton_decoherence") # <<>>

\* ------------------------------------------------------------------------
\* Properties of the dipole operators by manifold
\* ------------------------------------------------------------------------
MuStored == pc = "mu_by_manifold"

\* (i, j, i2, j2): old block (i, j), new block (i2, j2)
Quadruples(m) == (0..m) \X (0..m) \X (0..m) \X (0..m)

IsKetTransition(t) == t[3] \in {t[1] + 1, t[1] - 1} /\ t[4] = t[2]
IsBraTransition(t) == t[4] \in {t[2] + 1, t[2] - 1} /\ t[3] = t[1]

Transitions(m) == {t \in Quadruples(m) : IsKetTransition(t) \/ IsBraTransition(t)}

MuKey(t) == ManifoldKey(t[1], t[2]) \o "_to_" \o ManifoldKey(t[3], t[4])

TransitionOf(key) == CHOOSE t \in Quadruples(maximum_manifold) : MuKey(t) = key

\* what the builder returned for the transition before the pruning
UnprunedMu(t) ==
  IF IsKetTransition(t)
  THEN make_mu_by_manifold_ket(<<t[1], t[2]>>, t[3] - t[1],
                               force_detailed_balance, ~for_RK).mu
  ELSE make_mu_by_manifold_bra(<<t[1], t[2]>>, t[4] - t[2],
                               force_detailed_balance, ~for_RK).mu

SumOfSquares(entry) == SumUpTo([p \in 1..3 |-> np_abs2(entry[p])], 3)

\* C19: for every tensor stored by append_mu_by_manifold and every entry
\* (a, b), the mask is True exactly when the sum over the polarizations of
\* |mu[a, b, :]|^2 rounded to 12 decimals is nonzero, the stored tensor is
\* the unpruned value where the mask is True and 0 in all three components
\* where it is False, and mask and tensor are stored under the same key.
C19_MaskAndPrunedTensor ==
  MuStored =>
    /\ DOMAIN boolean_mu_by_manifold = DOMAIN mu_by_manifold
    /\ \A key \in DOMAIN mu_by_manifold :
         \A unpruned \in {UnprunedMu(TransitionOf(key))} :
           /\ Rows(mu_by_manifold[key]) = Rows(unpruned)
           /\ Rows(boolean_mu_by_manifold[key]) = Rows(unpruned)
           /\ \A a \in 1..Rows(unpruned) :
                /\ Len(mu_by_manifold[key][a]) = Cols(unpruned)
                /\ Len(boolean_mu_by_manifold[key][a]) = Cols(unpruned)
                /\ \A b \in 1..Cols(unpruned) :
                     /\ boolean_mu_by_manifold[key][a][b]
                          = (np_round_12(SumOfSquares(unpruned[a][b])) # 0)
                     /\ mu_by_manifold[key][a][b]
                          = IF boolean_mu_by_manifold[key][a][b]
                            THEN unpruned[a][b]
                            ELSE <<Zero, Zero, Zero>>

\* a stored tensor with an entry that is kept and a nonzero entry that is
\* pruned because its sum of squares rounds to 0
C19_Witness ==
  /\ MuStored
  /\ \E key \in DOMAIN mu_by_manifold :
       \E unpruned \in {UnprunedMu(TransitionOf(key))} :
         \E a \in 1..Rows(unpruned), b \in 1..Cols(unpruned) :
           /\ ~boolean_mu_by_manifold[key][a][b]
           /\ unpruned[a][b] # <<Zero, Zero, Zero>>
           /\ mu_by_manifold[key][a][b] = <<Zero, Zero, Zero>>
           /\ \E a2 \in 1..Rows(unpruned), b2 \in 1..Cols(unpruned) :
                /\ boolean_mu_by_manifold[key][a2][b2]
                /\ mu_by_manifold[key][a2][b2] # <<Zero, Zero, Zero>>

\* the dipole tensor of a transition in the basis the Liouvillian blocks
\* are built in, then, if transformed, multiplied by the left eigenvectors
\* of the new block and the right eigenvectors of the old block
ExpectedMu(t, transformed) ==
  LET site == IF IsKetTransition(t)
              THEN make_mu_by_manifold_ket_site(t[1], t[2], t[3], force_detailed_balance)
              ELSE make_mu_by_manifold_bra_site(t[1], t[2], t[4], force_detailed_balance)
      l == left_eigenvectors_by_manifold[ManifoldKey(t[3], t[4])]
      r == right_eigenvectors_by_manifold[ManifoldKey(t[1], t[2])]
  IN  mu_3d([p \in 1..3 |->
        IF transformed THEN np_array2(np_dot(l, np_array2(np_dot(site[p], r))))
        ELSE site[p]])

Pruned(mu) == np_array2(prune(mu, np_array2(boolean_mu_of(mu))))

\* C20 as stated: a tensor is produced for exactly the ket and bra
\* transitions inside [0, maximum_manifold], and each is transformed with
\* the left eigenvectors of the new block and the right eigenvectors of
\* the old block.
C20_EveryTensorEigentransformed ==
  MuStored =>
    /\ DOMAIN mu_by_manifold = {MuKey(t) : t \in Transitions(maximum_manifold)}
    /\ \A t \in Transitions(maximum_manifold) :
         /\ ManifoldKey(t[3], t[4]) \in DOMAIN left_eigenvectors_by_manifold
         /\ ManifoldKey(t[1], t[2]) \in DOMAIN right_eigenvectors_by_manifold
         /\ \A expected \in {ExpectedMu(t, TRUE)} :
              mu_by_manifold[MuKey(t)] = Pruned(expected)

\* C20: a tensor is produced for exactly the ket and bra transitions
\* inside [0, maximum_manifold]; when set_mu_by_manifold is called with
\* L_eigentransform true (for_RK false) each is transformed with the left
\* eigenvectors of the new block and the right eigenvectors of the old
\* block, and when it is called with L_eigentransform false (for_RK true)
\* each is stored without that transformation.
C20_TensorsEigentransformedUnlessForRK ==
  MuStored =>
    /\ DOMAIN mu_by_manifold = {MuKey(t) : t \in Transitions(maximum_manifold)}
    /\ \A t \in Transitions(maximum_manifold) :
         \A expected \in {ExpectedMu(t, ~for_RK)} :
           mu_by_manifold[MuKey(t)] = Pruned(expected)

\* two sites, manifolds 0 and 1, eigenvectors that differ from block to
\* block: eight transitions, and the tensor from block 00 to block 10 is
\* not the one of the site basis
C20_Witness ==
  /\ MuStored
  /\ ~for_RK
  /\ num_sites = 2
  /\ maximum_manifold = 1
  /\ Cardinality(DOMAIN mu_by_manifold) = 8
  /\ mu_by_manifold["00_to_10"] # Pruned(ExpectedMu(<<0, 0, 1, 0>>, FALSE))
  /\ mu_by_manifold["00_to_10"] = Pruned(ExpectedMu(<<0, 0, 1, 0>>, TRUE))

\* the same system built for_RK: the stored tensors are those of the site
\* basis and no eigenvectors exist
C20_WitnessForRK ==
  /\ MuStored
  /\ for_RK
  /\ num_sites = 2
  /\ Cardinality(DOMAIN mu_by_manifold) = 8
  /\ left_eigenvectors_by_manifold = <<>>
  /\ mu_by_manifold["00_to_10"][1][1] # <<Zero, Zero, Zero>>

\* ------------------------------------------------------------------------
\* Properties of the vibronic space and of the Liouvillian blocks
\* ------------------------------------------------------------------------
\* number of occupied sites of the electronic basis state e (0-based)
RECURSIVE OccupiedSites(_)
OccupiedSites(e) == IF e = 0 THEN 0 ELSE (e % 2) + OccupiedSites(e \div 2)

\* the 0-based rows of an operator of dimension dim on electronic (x)
\* vibrational space whose electronic factor has k occupied sites, ascending
RECURSIVE ManifoldRowsUpTo(_, _, _)
ManifoldRowsUpTo(k, vib_size, a) ==
  IF a = 0 THEN <<>>
  ELSE IF OccupiedSites((a - 1) \div vib_size) = k
       THEN Append(ManifoldRowsUpTo(k, vib_size, a - 1), a - 1)
       ELSE ManifoldRowsUpTo(k, vib_size, a - 1)

ManifoldRows(k) ==
  ManifoldRowsUpTo(k, Len(vibrational_mask), Rows(total_hamiltonian))

\* O restricted to the rows and columns of manifold k, in the basis of the
\* eigenvectors of that manifold when H_eigentransform is set
RestrictedTo(O, k, H_eigentransform) ==
  LET rows == ManifoldRows(k)
      R == [a \in 1..Len(rows) |-> [b \in 1..Len(rows) |-> O[rows[a] + 1][rows[b] + 1]]]
  IN  IF H_eigentransform
      THEN np_array2(np_dot(Transpose(H_eigenvectors[k + 1]), np_dot(R, H_eigenvectors[k + 1])))
      ELSE R

\* sum over the instructions of Left[a][b] * Right[d][c]
RECURSIVE KetBraSumUpTo(_, _, _, _, _, _, _)
KetBraSumUpTo(lefts, rights, a, b, c, d, i) ==
  IF i = 0 THEN Zero
  ELSE CAdd(KetBraSumUpTo(lefts, rights, a, b, c, d, i - 1),
            CMul(lefts[i][a][b], rights[i][d][c]))

BlocksBuilt == pc = "L_by_manifold" /\ call.op = "OpenPolymerVibrations"

\* C21: after set_L_by_manifold, for every pair (k, l) of manifolds in
\* 0..maximum_manifold the block stored for (k, l) is square of dimension
\* D_k * D_l, and its entry at row (a, c), column (b, d) is the sum over the
\* instructions of Left[a][b] * Right[d][c], where Left is the instruction's
\* left operand restricted to the rows and columns of manifold k and Right
\* its right operand restricted to the rows and columns of manifold l: the
\* block is the sum of kron(Left, Right^T) with Right restricted before it
\* is transposed
C21_BlocksRestrictKetAndBra ==
  BlocksBuilt =>
    \A k \in 0..maximum_manifold : \A l \in 0..maximum_manifold :
      \A block \in {L_by_manifold[ManifoldKey(k, l)]} :
        \A Dk \in {Len(ManifoldRows(k))} : \A Dl \in {Len(ManifoldRows(l))} :
          /\ Rows(block) = Dk * Dl
          /\ Cols(block) = Dk * Dl
          /\ \A lefts \in {[i \in 1..Len(all_instructions) |->
                              RestrictedTo(all_instructions[i][1], k, force_detailed_balance)]} :
               \A rights \in {[i \in 1..Len(all_instructions) |->
                                 RestrictedTo(all_instructions[i][2], l, force_detailed_balance)]} :
                 \A a \in 1..Dk : \A b \in 1..Dk : \A c \in 1..Dl : \A d \in 1..Dl :
                   block[(a - 1) * Dl + c][(b - 1) * Dl + d] =
                     KetBraSumUpTo(lefts, rights, a, b, c, d, Len(all_instructions))

\* two sites with two masked modes: the block of the coherence between the
\* ground manifold (3 states) and the one-excitation manifold (6 states)
\* is 18 x 18 and not zero, and the dissipation instructions are in it
C21_Witness ==
  /\ BlocksBuilt
  /\ ~force_detailed_balance
  /\ num_sites = 2
  /\ num_vibrations = 2
  /\ Len(vibrational_mask) = 3
  /\ maximum_manifold = 2
  /\ Len(all_instructions) > 2
  /\ Rows(L_by_manifold[ManifoldKey(0, 1)]) = 18
  /\ L_by_manifold[ManifoldKey(0, 1)][1][2] # Zero
  /\ L_by_manifold[ManifoldKey(0, 1)] # Transpose(L_by_manifold[ManifoldKey(1, 0)])


\* quantum number of mode m (0-based, mode 0 the leftmost factor) in the
\* state x (0-based) of the product basis of nv modes of N levels
ModeNumber(x, m, N, nv) == (x \div IntPow(N, nv - 1 - m)) % N

RECURSIVE TotalNumberUpTo(_, _, _, _)
TotalNumberUpTo(x, N, nv, m) ==
  IF m = 0 THEN 0 ELSE TotalNumberUpTo(x, N, nv, m - 1) + ModeNumber(x, m - 1, N, nv)

\* the states of the product basis whose total quantum number is below N,
\* ascending
RECURSIVE StatesBelowTruncationUpTo(_, _, _)
StatesBelowTruncationUpTo(N, nv, x) ==
  IF x = 0 THEN <<>>
  ELSE IF TotalNumberUpTo(x - 1, N, nv, nv) < N
       THEN Append(StatesBelowTruncationUpTo(N, nv, x - 1), x - 1)
       ELSE StatesBelowTruncationUpTo(N, nv, x - 1)

\* entry (x, y) of the operator of mode m on the product basis: the
\* single-mode operator between the numbers of mode m, the identity on the
\* other modes
ProductSpaceEntry(single, x, y, m, N, nv) ==
  IF \A o \in 0..(nv - 1) : o = m \/ ModeNumber(x, o, N, nv) = ModeNumber(y, o, N, nv)
  THEN single[ModeNumber(x, m, N, nv) + 1][ModeNumber(y, m, N, nv) + 1]
  ELSE Zero

\* stored is kron(E, V) where V is the operator of mode m restricted to the
\* rows and columns of self.vibrational_mask
IsMaskedModeOperator(stored, E, single, m) ==
  \A vd \in {Len(vibrational_mask)} :
    /\ Rows(stored) = Rows(E) * vd
    /\ Cols(stored) = Cols(E) * vd
    /\ \A e1 \in 1..Rows(E) : \A e2 \in 1..Cols(E) : \A a \in 1..vd : \A b \in 1..vd :
         stored[(e1 - 1) * vd + a][(e2 - 1) * vd + b] =
           CMul(E[e1][e2],
                ProductSpaceEntry(single, vibrational_mask[a], vibrational_mask[b], m,
                                  truncation_size, num_vibrations))

VibrationsSet ==
  /\ call.op = "OpenPolymerVibrations"
  /\ pc \in {"vibrations", "total_hamiltonian", "H_eigsystem", "raised",
             "all_instructions", "L_by_manifold"}

C22_WitnessOneMode ==
  /\ VibrationsSet
  /\ occupation_num_mask
  /\ num_vibrations = 1
  /\ truncation_size = 2
  /\ vibrational_mask = <<0, 1>>
  /\ Rows(occupied_vibrations[1]) = 2 * Rows(electronic_factor(electronic_hamiltonian))


TotalHamiltonianSet ==
  /\ call.op = "OpenPolymerVibrations"
  /\ pc \in {"total_hamiltonian", "H_eigsystem", "raised", "all_instructions",
             "L_by_manifold"}

\* dimension of the electronic factor of total_hamiltonian
ElectronicDimension == Rows(electronic_factor(electronic_hamiltonian))

\* number of vibrational states of the configured modes: the product
\* states whose total number is below truncation_size when masking is on,
\* all truncation_size^num_vibrations of them otherwise
VibrationalDimension ==
  IF occupation_num_mask
  THEN Len(StatesBelowTruncationUpTo(truncation_size, num_vibrations,
                                     IntPow(truncation_size, num_vibrations)))
  ELSE IntPow(truncation_size, num_vibrations)

\* C23: total_hamiltonian is square of dimension (electronic dimension) x
\* (number of vibrational states), for every number of modes; with no mode
\* configured that is the electronic dimension, masking on or off
C23_DimensionIsElectronicTimesVibrational ==
  TotalHamiltonianSet =>
    /\ Rows(total_hamiltonian) = ElectronicDimension * VibrationalDimension
    /\ Cols(total_hamiltonian) = ElectronicDimension * VibrationalDimension
    /\ num_vibrations = 0 => Rows(total_hamiltonian) = ElectronicDimension

\* the same with at least one mode, or without masking, or with a
\* truncation size of 1
C23_DimensionWithModesOrUnmasked ==
  (TotalHamiltonianSet
     /\ (num_vibrations >= 1 \/ ~occupation_num_mask \/ truncation_size = 1)) =>
    /\ Rows(total_hamiltonian) = ElectronicDimension * VibrationalDimension
    /\ Cols(total_hamiltonian) = ElectronicDimension * VibrationalDimension

\* no mode, masking on, truncation size 2: total_hamiltonian has two rows
\* per electronic state
C23_WitnessNoModes ==
  /\ TotalHamiltonianSet
  /\ num_vibrations = 0
  /\ occupation_num_mask
  /\ truncation_size = 2
  /\ num_sites = 1
  /\ manifolds_separable
  /\ vibrational_mask = <<0, 1>>
  /\ Rows(total_hamiltonian) = 4

\* the electronic basis states total_hamiltonian is built on (0-based
\* indices of the full space): all of them when the manifolds are
\* separable, those of occupation 0..maximum_manifold otherwise
RECURSIVE KeptStatesUpTo(_)
KeptStatesUpTo(e) ==
  IF e = 0 THEN <<>>
  ELSE IF manifolds_separable \/ OccupiedSites(e - 1) <= maximum_manifold
       THEN Append(KeptStatesUpTo(e - 1), e - 1)
       ELSE KeptStatesUpTo(e - 1)

KeptStates == KeptStatesUpTo(Pow2(num_sites))

\* electronic occupation of the basis state of row r (0-based) of
\* total_hamiltonian
RowOccupation(r) == OccupiedSites(KeptStates[(r \div Len(vibrational_mask)) + 1])

\* C25: for every manifold k in 0..maximum_manifold the indices of
\* vibronic_manifold_mask(k) are rows of total_hamiltonian, and they are
\* exactly the rows whose basis state has electronic occupation k, whether
\* the manifolds are separable or the electronic space is truncated
C25_MasksSelectManifoldRows ==
  TotalHamiltonianSet =>
    \A k \in 0..maximum_manifold :
      \A inds \in {vibronic_manifold_mask(k)} : \A dim \in {Rows(total_hamiltonian)} :
        /\ \A a \in 1..Len(inds) : inds[a] < dim
        /\ Range(inds) = {r \in 0..(dim - 1) : RowOccupation(r) = k}

\* the same when the electronic space is not truncated inside: separable
\* manifolds, or all but the highest occupation kept, or only the ground
\* state kept
C25_MasksOfContiguousSpace ==
  (TotalHamiltonianSet
     /\ (manifolds_separable \/ maximum_manifold >= num_sites - 1 \/ maximum_manifold = 0)) =>
    \A k \in 0..maximum_manifold :
      \A inds \in {vibronic_manifold_mask(k)} : \A dim \in {Rows(total_hamiltonian)} :
        /\ \A a \in 1..Len(inds) : inds[a] < dim
        /\ Range(inds) = {r \in 0..(dim - 1) : RowOccupation(r) = k}

\* three sites truncated to one excitation: the mask of manifold 1 names
\* row 4 of a total_hamiltonian of 4 rows and the constructor raises
C25_WitnessIndexError ==
  /\ pc = "raised"
  /\ ret = Raised("IndexError")
  /\ num_sites = 3
  /\ maximum_manifold = 1
  /\ ~manifolds_separable
  /\ num_vibrations = 0
  /\ truncation_size = 1
  /\ Rows(total_hamiltonian) = 4
  /\ vibronic_manifold_mask(1) = <<1, 2, 4>>


\* ------------------------------------------------------------------------
\* Properties of the dictionary keys
\* ------------------------------------------------------------------------
AllBlocksAssigned == pc = "L_by_manifold" /\ call.op = "set_L_by_manifold"

ManifoldPairs == (0..maximum_manifold) \X (0..maximum_manifold)

\* every pair of manifolds has its own key, (maximum_manifold + 1)^2 blocks
\* are stored, and the block under the key of a pair is the block of that pair
NoBlockOverwritten ==
  /\ \A p \in ManifoldPairs : \A q \in ManifoldPairs :
       p # q => ManifoldKey(p[1], p[2]) # ManifoldKey(q[1], q[2])
  /\ Cardinality(DOMAIN L_by_manifold) = (maximum_manifold + 1) * (maximum_manifold + 1)
  /\ \A p \in ManifoldPairs :
       L_by_manifold[ManifoldKey(p[1], p[2])] = [ket |-> p[1], bra |-> p[2]]

\* C24: for every maximum_manifold, distinct ordered pairs (k, l) of
\* manifolds in 0..maximum_manifold have distinct keys str(k) + str(l), so
\* that after set_L_by_manifold (maximum_manifold + 1)^2 blocks are stored
\* and none has been overwritten by the block of another pair
C24_DistinctPairsDistinctKeys == AllBlocksAssigned => NoBlockOverwritten

\* the same up to maximum_manifold = 10, where at most one of the two
\* numbers of a three-character key can have two digits and '10' + j
\* differs from i + '10'
C24_DistinctKeysUpToTen ==
  (AllBlocksAssigned /\ maximum_manifold <= 10) => NoBlockOverwritten

\* eleven sites: the block of (11, 1) is stored under '111', the key of
\* (1, 11), and 138 keys hold the 144 blocks
C24_WitnessCollision ==
  /\ AllBlocksAssigned
  /\ maximum_manifold = 11
  /\ ManifoldKey(1, 11) = "111"
  /\ L_by_manifold["111"] = [ket |-> 11, bra |-> 1]
  /\ Cardinality(DOMAIN L_by_manifold) < 144

\* ------------------------------------------------------------------------
\* Properties of the thermally weighted decoherence builders
\* ------------------------------------------------------------------------
ThermalBuilders ==
  {"optical_decoherence_instructions", "site_to_site_decoherence_instructions",
   "exciton_decoherence_instructions_by_manifold",
   "all_eigenstate_decoherence_instructions_by_manifold"}

SiteBuilders ==
  {"optical_decoherence_instructions", "site_to_site_decoherence_instructions"}

ThermalBuilderReturned == pc = "called" /\ call.op \in ThermalBuilders

\* the first instruction of every Lindblad triple is the jump term
\* (gamma * O, O^dagger)
JumpIndices == {k \in 1..Len(ret.value) : k % 3 = 1}

\* an operand of a returned instruction in the basis of the levels the
\* builder enumerates: the site basis, or the eigenstates of the manifold
InLevelBasis(X) ==
  IF call.op = "exciton_decoherence_instructions_by_manifold"
  THEN np_dot(Transpose(call.eig.v),
              np_dot(extract_manifold(X, call.args[1]), call.eig.v))
  ELSE X

JumpLeft(k) == InLevelBasis(ret.value[k][1])

JumpRight(k) == InLevelBasis(ret.value[k][2])

NumLevels ==
  CASE call.op \in SiteBuilders -> Rows(electronic_hamiltonian)
    [] call.op = "exciton_decoherence_instructions_by_manifold" -> Len(call.eig.e)
    [] OTHER -> Len(call.args[2])

SiteOccupied(level, s) == occupied_list[s][level][level] = One

DifferingSites(a, b) == {s \in 1..num_sites : SiteOccupied(a, s) # SiteOccupied(b, s)}

\* energy, in level a, of the sites on which levels a and b differ
RECURSIVE LocalEnergyUpTo(_, _, _)
LocalEnergyUpTo(a, b, s) ==
  IF s = 0 THEN Zero
  ELSE CAdd(LocalEnergyUpTo(a, b, s - 1),
            IF s \in DifferingSites(a, b) /\ SiteOccupied(a, s) THEN energies[s] ELSE Zero)

LevelEnergy(a, b) ==
  CASE call.op \in SiteBuilders -> LocalEnergyUpTo(a, b, num_sites)
    [] call.op = "exciton_decoherence_instructions_by_manifold" -> call.eig.e[a]
    [] OTHER -> call.args[2][a]

\* the pairs of levels the builder connects
Connected(a, b) ==
  CASE call.op = "optical_decoherence_instructions" ->
         Cardinality(DifferingSites(a, b)) = 1
    [] call.op = "site_to_site_decoherence_instructions" ->
         /\ Cardinality(DifferingSites(a, b)) = 2
         /\ \E s \in DifferingSites(a, b) : SiteOccupied(a, s)
         /\ \E s \in DifferingSites(a, b) : SiteOccupied(b, s)
    [] OTHER -> a # b

\* the bare rate of the transition between levels a and b
BareRate(a, b) ==
  CASE call.op = "optical_decoherence_instructions" -> optical_decoherence_gamma
    [] call.op = "site_to_site_decoherence_instructions" -> site_to_site_decoherence_gamma
    [] call.op = "exciton_decoherence_instructions_by_manifold" -> exciton_decoherence_gamma
    [] OTHER -> IF a < b THEN call.args[1][a][b] ELSE call.args[1][b][a]

Downward(from, to) == RLess(LevelEnergy(to, from), LevelEnergy(from, to))

Upward(from, to) == RLess(LevelEnergy(from, to), LevelEnergy(to, from))

\* the high-to-low factor for a downward transition, the low-to-high factor
\* for an upward one
DetailedBalanceFactor(from, to) ==
  IF Downward(from, to)
  THEN boltzmann_factors_ordered_inputs(kT, LevelEnergy(to, from),
                                        LevelEnergy(from, to)).value[1]
  ELSE boltzmann_factors_ordered_inputs(kT, LevelEnergy(from, to),
                                        LevelEnergy(to, from)).value[2]

\* C26: in each of the four thermally weighted builders every jump operator
\* that moves population between two levels of different energy carries the
\* bare rate times the high-to-low Boltzmann factor when it moves population
\* down and the low-to-high factor when it moves population up, whichever
\* level is enumerated first; every connected pair has its downward
\* operator; at kT = 0 only the downward operator has a nonzero rate
C26_RatesFollowDirection ==
  ThermalBuilderReturned =>
    /\ \A k \in JumpIndices :
         \A left \in {JumpLeft(k)} : \A right \in {JumpRight(k)} :
           \A from, to \in 1..NumLevels :
             (right[from][to] # Zero /\ (Downward(from, to) \/ Upward(from, to))) =>
               /\ left[to][from] =
                    CMul(CMul(BareRate(from, to), DetailedBalanceFactor(from, to)),
                         CConj(right[from][to]))
               /\ kT = Zero =>
                    /\ Upward(from, to) => left[to][from] = Zero
                    /\ (Downward(from, to) /\ BareRate(from, to) # Zero) =>
                         left[to][from] # Zero
    /\ \A from, to \in 1..NumLevels :
         (Connected(from, to) /\ Downward(from, to)) =>
           \E k \in JumpIndices : JumpRight(k)[from][to] # Zero

\* the first site of the pair is the higher one, at a finite temperature,
\* and the operator that empties it carries the high-to-low factor
C26_Witness ==
  /\ ThermalBuilderReturned
  /\ call.op = "site_to_site_decoherence_instructions"
  /\ kT = One
  /\ num_sites = 2
  /\ RLess(energies[2], energies[1])
  /\ \E k \in JumpIndices : \E from, to \in 1..NumLevels :
       /\ SiteOccupied(from, 1)
       /\ SiteOccupied(to, 2)
       /\ JumpRight(k)[from][to] # Zero
       /\ JumpLeft(k)[to][from] =
            CMul(site_to_site_decoherence_gamma,
                 boltzmann_factors_ordered_inputs(kT, energies[2], energies[1]).value[1])
       /\ JumpLeft(k)[to][from] # Zero

\* at zero temperature the eigenstate builder has left out the upward
\* operator of a pair of different energies
C26_WitnessZeroTemperature ==
  /\ ThermalBuilderReturned
  /\ call.op = "all_eigenstate_decoherence_instructions_by_manifold"
  /\ kT = Zero
  /\ \E from, to \in 1..NumLevels :
       /\ Upward(from, to)
       /\ BareRate(from, to) # Zero
       /\ \A k \in JumpIndices : JumpRight(k)[from][to] = Zero
       /\ \E k \in JumpIndices : JumpLeft(k)[from][to] = BareRate(from, to)

\* ------------------------------------------------------------------------
\* Properties of the optical dephasing of the eigenstate blocks
\* ------------------------------------------------------------------------
OpticalDephasingCalled == call.op = "make_eigenstate_optical_dephasing_Lindblad"

\* -gamma * (k - l)^2 / 2
CoherenceDephasingRate(k, l) ==
  CDivReal(CMul(optical_dephasing_gamma, Real(-((k - l) * (k - l)))), Real(2))

\* C27: every diagonal entry of the optical dephasing Liouvillian inside the
\* coherence block of manifolds k # l equals -gamma * (k - l)^2 / 2, so
\* make_eigenstate_optical_dephasing_Lindblad does not raise and returns
\* the diagonal matrix of that one rate
C27_BlockRatesAreEqual ==
  (OpticalDephasingCalled /\ call.args[1] # call.args[2]) =>
    /\ pc = "called"
    /\ ret.error = NoError
    /\ \A k \in 1..Len(call.args[3]) :
         call.args[3][k] = CoherenceDephasingRate(call.args[1], call.args[2])
    /\ \A r, c \in 1..Rows(ret.value) :
         ret.value[r][c] = IF r = c
                           THEN CoherenceDephasingRate(call.args[1], call.args[2])
                           ELSE Zero

\* the block between the ground state and the doubly excited manifold of
\* three sites: three entries, each -2 * gamma
C27_Witness ==
  /\ OpticalDephasingCalled
  /\ pc = "called"
  /\ num_sites = 3
  /\ call.args[1] = 0
  /\ call.args[2] = 2
  /\ Len(call.args[3]) = 3
  /\ Rows(ret.value) = 4
  /\ ret.value[4][4] = Frac(-2, 10)

\* ------------------------------------------------------------------------
\* Properties of the eigenstate decoherence generators
\* ------------------------------------------------------------------------
ByCoherenceCalled ==
  /\ pc = "called"
  /\ call.op = "make_eigenstate_decoherence_Lindblad_all_rates_by_coherence"
  /\ call.args[1] # call.args[2]

CalledEigenvalues(m) == call.args[3][m]

CalledRates(m) == call.args[4][m]

\* the damping of level x of a manifold: every pair i < j gives
\* -0.25 * down * rate to level j and -0.25 * up * rate to level i
RECURSIVE LevelDampingUpTo(_, _, _, _)
LevelDampingUpTo(rates, E, x, k) ==
  IF k = 0 THEN Zero
  ELSE LET i == combinations(Len(E), 2)[k][1] + 1
           j == combinations(Len(E), 2)[k][2] + 1
           bf == boltzmann_factors(kT, E[i], E[j]).value
       IN  SumUpTo(<<LevelDampingUpTo(rates, E, x, k - 1),
                     When(x = j, CMul(CNeg(Quarter), CMul(bf[1], rates[i][j]))),
                     When(x = i, CMul(CNeg(Quarter), CMul(bf[2], rates[i][j])))>>, 3)

LevelDamping(m, x) ==
  LevelDampingUpTo(CalledRates(m), CalledEigenvalues(m), x,
                   Len(combinations(Len(CalledEigenvalues(m)), 2)))

\* the generator of the block with ket and bra exchanged
ExchangedBlock ==
  make_eigenstate_decoherence_Lindblad_all_rates_by_coherence(
    kT, CalledRates(call.args[2]), CalledRates(call.args[1]),
    CalledEigenvalues(call.args[2]), CalledEigenvalues(call.args[1]),
    call.args[2], call.args[1])

\* C28: for k # l the damping of element (a, b) of block (k, l) equals the
\* damping of element (b, a) of block (l, k), and it is the sum of the
\* damping of ket level a and of bra level b, each pair (i, j) giving
\* -0.25 * down * rate to level j and -0.25 * up * rate to level i
C28_KetAndBraTreatedAlike ==
  ByCoherenceCalled =>
    \A exchanged \in {ExchangedBlock} :
      LET ket_size == Len(CalledEigenvalues(call.args[1]))
          bra_size == Len(CalledEigenvalues(call.args[2]))
      IN  \A a \in 1..ket_size : \A b \in 1..bra_size :
            /\ ret.value[(a - 1) * bra_size + b][(a - 1) * bra_size + b] =
                 exchanged[(b - 1) * ket_size + a][(b - 1) * ket_size + a]
            /\ ret.value[(a - 1) * bra_size + b][(a - 1) * bra_size + b] =
                 CAdd(LevelDamping(call.args[1], a), LevelDamping(call.args[2], b))

\* with one level in the bra manifold only the ket loop contributes, and
\* it gives every ket level its damping
C28_KetSideDamping ==
  (ByCoherenceCalled /\ Len(CalledEigenvalues(call.args[2])) = 1) =>
    \A a \in 1..Len(CalledEigenvalues(call.args[1])) :
      ret.value[a][a] = LevelDamping(call.args[1], a)

\* one ket level, two bra levels of energies 0 and 1 with rate 3/10 at
\* kT = 1: the upper bra level is damped by 0.25 * down * (3/10)^2 and the
\* lower one by 0.25 * up, not by 0.25 * down * 3/10 and 0.25 * up * 3/10
C28_WitnessBraSide ==
  /\ ByCoherenceCalled
  /\ kT = One
  /\ CalledEigenvalues(call.args[1]) = <<Real(1)>>
  /\ CalledEigenvalues(call.args[2]) = <<Zero, Real(1)>>
  /\ CalledRates(call.args[2])[1][2] = Frac(3, 10)
  /\ ret.value[2][2] =
       CMul(CNeg(Quarter),
            CMul(boltzmann_factors(kT, Zero, Real(1)).value[1], Frac(9, 100)))
  /\ ret.value[1][1] =
       CMul(CNeg(Quarter), boltzmann_factors(kT, Zero, Real(1)).value[2])
  /\ ret.value[2][2] # LevelDamping(call.args[2], 2)
  /\ ret.value[1][1] # LevelDamping(call.args[2], 1)

AllRatesCalled ==
  /\ pc = "called"
  /\ call.op = "make_eigenstate_decoherence_Lindblad_all_rates"

\* pop_inds = np.arange(size) * (size + 1), 1-based
PopulationIndices == {(k - 1) * (Len(call.args[2]) + 1) + 1 : k \in 1..Len(call.args[2])}

RECURSIVE PopulationColumnSumUpTo(_, _)
PopulationColumnSumUpTo(c, k) ==
  IF k = 0 THEN Zero
  ELSE CAdd(PopulationColumnSumUpTo(c, k - 1),
            ret.value[(k - 1) * (Len(call.args[2]) + 1) + 1][c])

\* C29: in the generator of make_eigenstate_decoherence_Lindblad_all_rates
\* every population column sums to zero over the population rows, and a
\* population row has no nonzero entry outside the population columns
C29_PopulationIsConserved ==
  AllRatesCalled =>
    /\ \A c \in PopulationIndices : PopulationColumnSumUpTo(c, Len(call.args[2])) = Zero
    /\ \A r \in PopulationIndices :
         \A c \in (1..Rows(ret.value)) \ PopulationIndices : ret.value[r][c] = Zero

\* three levels at a finite temperature with all rates nonzero: population
\* leaves the top level and arrives in the bottom one
C29_Witness ==
  /\ AllRatesCalled
  /\ kT = One
  /\ call.args[2] = <<Zero, Real(1), Real(1)>>
  /\ call.args[1][1][3] = Frac(4, 10)
  /\ RLess(ret.value[9][9], Zero)
  /\ RLess(Zero, ret.value[1][9])
  /\ RLess(Zero, ret.value[9][1])

\* ------------------------------------------------------------------------
\* Properties of the occupation number and the occupied projectors
\* ------------------------------------------------------------------------
\* the sites whose occupied projector has a 1 at the 1-based basis index
SitesOccupiedAt(index) ==
  {s \in 1..num_sites : occupied_list[s][index][index] = One}

\* C30: the sum over the sites of occupied_list[i] is the diagonal matrix
\* of electronic_total_occupation_number; the number the masks compare at a
\* basis index is the number of sites whose occupied projector has a 1
\* there, an integer in 0..n
C30_OccupationNumberCountsOccupiedSites ==
  Constructed =>
    /\ Len(occupied_list) = num_sites
    /\ Len(electronic_total_occupation_number) = Pow2(num_sites)
    /\ \A total \in {MatSumUpTo(occupied_list, num_sites)} :
         \A r, c \in 1..Pow2(num_sites) :
           total[r][c] = IF r = c THEN Real(electronic_total_occupation_number[r])
                         ELSE Zero
    /\ \A index \in 1..Pow2(num_sites) :
         /\ electronic_total_occupation_number[index] = Cardinality(SitesOccupiedAt(index))
         /\ electronic_total_occupation_number[index] \in 0..num_sites
         /\ \A k \in 0..num_sites :
              (index - 1) \in Range(electronic_manifold_mask(k))
                <=> Cardinality(SitesOccupiedAt(index)) = k

\* three sites: the last basis index has all of them occupied and the
\* index before it the first two
C30_Witness ==
  /\ Constructed
  /\ num_sites = 3
  /\ electronic_total_occupation_number[8] = 3
  /\ SitesOccupiedAt(7) = {1, 2}
  /\ electronic_total_occupation_number[7] = 2


====
